---------------------------- MODULE Spec2Model ----------------------------
(***************************************************************************)
(* A model of github.com/flamego/binding: the type coercion of form tokens *)
(* (setWithProperType), the form mapper (mapForm) and the four binding     *)
(* entry points (JSON, YAML, Form, MultipartForm) of binding.go, with the  *)
(* error collection of errors.go.                                          *)
(*                                                                         *)
(* A string token is a tuple of one-character strings, so that the parsers *)
(* of strconv can be modelled by what they do to the characters.           *)
(* A nil pointer, a nil slice and the empty string are the empty tuple; a  *)
(* non-nil pointer is a one-element tuple holding its target.              *)
(***************************************************************************)
EXTENDS Integers, Sequences, FiniteSets, TLC

VARIABLES
    pc,         \* position of the modelled run
    call,       \* inputs of a direct call of setWithProperType / mapForm
    ret,        \* what that call returned
    reg,        \* the registration: entry point, model value, Options
    req,        \* the HTTP request being served
    ctx,        \* the request context: what c.Map has mapped into it
    hist        \* the calls made while serving the request, in order

vars == <<pc, call, ret, reg, req, ctx, hist>>

(***************************************************************************)
(* Bounds.                                                                 *)
(***************************************************************************)
\* longest generated token, in characters
MaxTokLen == 3
\* most values (over all keys) in a plain-value mapping
MaxFormVals == 3
\* most file handles (over all keys) in a file mapping
MaxFileVals == 2

\* F applied to the value of v, v being evaluated once: a local variable that
\* is assigned once and read several times
With(v, F(_)) == CHOOSE y \in { F(x) : x \in {v} } : TRUE

(***************************************************************************)
(* Tokens.                                                                 *)
(***************************************************************************)
Digits == {"0", "1", "2", "3", "4", "5", "6", "7", "8", "9"}

\* the characters generated tokens are made of
Alphabet == {"0", "1", "7", "-", "+", ".", "b"}

RECURSIVE SeqsUpTo(_, _)
SeqsUpTo(S, n) ==
    IF n = 0 THEN {<<>>}
    ELSE LET shorter == SeqsUpTo(S, n - 1)
         IN  shorter \cup {Append(s, c) : s \in {t \in shorter : Len(t) = n - 1}, c \in S}

\* tokens the tests and the documentation of strconv name
NamedTokens ==
    { <<"o", "n">>, <<"b", "a", "d">>,
      <<"t", "r", "u", "e">>, <<"f", "a", "l", "s", "e">>,
      <<"T", "R", "U", "E">>, <<"F", "A", "L", "S", "E">>,
      <<"T", "r", "u", "e">>, <<"F", "a", "l", "s", "e">>,
      <<"t">>, <<"T">>, <<"f">>, <<"F">>, <<"O", "N">>, <<"y", "e", "s">>,
      <<"1", "2", "7">>, <<"1", "2", "8">>, <<"-", "1", "2", "8">>,
      <<"-", "1", "2", "9">>, <<"2", "5", "5">>, <<"2", "5", "6">>,
      <<"3", "0", "0">>, <<"6", "0", ".", "7">>, <<"-", "1", "2", ".", "4">> }

Tokens == SeqsUpTo(Alphabet, MaxTokLen) \cup NamedTokens

(***************************************************************************)
(* strconv, as far as binding.go uses it.  Every parser returns            *)
(* [ok, v]: ok is FALSE where strconv returns a non-nil error.             *)
(***************************************************************************)
DigitVal(c) ==
    CASE c = "0" -> 0 [] c = "1" -> 1 [] c = "2" -> 2 [] c = "3" -> 3
      [] c = "4" -> 4 [] c = "5" -> 5 [] c = "6" -> 6 [] c = "7" -> 7
      [] c = "8" -> 8 [] c = "9" -> 9

\* DecimalValue as a lenient scanner would compute it: characters that are
\* no digits are skipped instead of rejected
RECURSIVE DecimalValueLenient(_)
DecimalValueLenient(s) ==
    IF s = <<>> THEN 0
    ELSE LET front == DecimalValueLenient(SubSeq(s, 1, Len(s) - 1))
             c     == s[Len(s)]
         IN  IF c \notin Digits THEN front ELSE 10 * front + DigitVal(c)

\* the value of a run of decimal digits, or -1 if a character is no digit
RECURSIVE DecimalValue(_)
DecimalValue(s) ==
    IF s = <<>> THEN 0
    ELSE With(DecimalValue(SubSeq(s, 1, Len(s) - 1)),
              LAMBDA front :
                 LET c == s[Len(s)]
                 IN  IF front < 0 \/ c \notin Digits THEN -1
                     ELSE 10 * front + DigitVal(c))

\* 2^n for the widths whose limits a generated token can reach; a token of
\* at most MaxTokLen + 2 characters is below 2^31 in absolute value, so the
\* limits of the 32- and 64-bit kinds are never reached
RECURSIVE Pow2(_)
Pow2(n) == IF n = 0 THEN 1 ELSE 2 * Pow2(n - 1)

Reachable(bitSize) == bitSize < 31

\* strconv.ParseUint(s, 10, bitSize): digits only, no sign, in range
ParseUint(s, bitSize) ==
    LET v == DecimalValue(s)
    IN  IF s = <<>> \/ v < 0 THEN [ok |-> FALSE, v |-> 0]
        ELSE IF Reachable(bitSize) /\ v > Pow2(bitSize) - 1
             THEN [ok |-> FALSE, v |-> 0]
        ELSE [ok |-> TRUE, v |-> v]

\* strconv.ParseInt(s, 10, bitSize): an optional sign, then digits, in range
ParseInt(s, bitSize) ==
    IF s = <<>> THEN [ok |-> FALSE, v |-> 0]
    ELSE LET neg    == s[1] = "-"
             signed == s[1] \in {"+", "-"}
             digits == IF signed THEN Tail(s) ELSE s
             u      == DecimalValue(digits)
         IN  IF digits = <<>> \/ u < 0 THEN [ok |-> FALSE, v |-> 0]
             ELSE IF Reachable(bitSize) /\ ~neg /\ u > Pow2(bitSize - 1) - 1
                  THEN [ok |-> FALSE, v |-> 0]
             ELSE IF Reachable(bitSize) /\ neg /\ u > Pow2(bitSize - 1)
                  THEN [ok |-> FALSE, v |-> 0]
             ELSE [ok |-> TRUE, v |-> IF neg THEN 0 - u ELSE u]

\* ParseBool with a token set widened by "yes"
ParseBoolYes(s) ==
    IF s \in { <<"1">>, <<"t">>, <<"T">>, <<"T", "R", "U", "E">>,
               <<"t", "r", "u", "e">>, <<"T", "r", "u", "e">>, <<"y", "e", "s">> }
    THEN [ok |-> TRUE, v |-> TRUE]
    ELSE IF s \in { <<"0">>, <<"f">>, <<"F">>, <<"F", "A", "L", "S", "E">>,
                    <<"f", "a", "l", "s", "e">>, <<"F", "a", "l", "s", "e">> }
    THEN [ok |-> TRUE, v |-> FALSE]
    ELSE [ok |-> FALSE, v |-> FALSE]

\* strconv.ParseBool(s)
ParseBool(s) ==
    IF s \in { <<"1">>, <<"t">>, <<"T">>, <<"T", "R", "U", "E">>,
               <<"t", "r", "u", "e">>, <<"T", "r", "u", "e">> }
    THEN [ok |-> TRUE, v |-> TRUE]
    ELSE IF s \in { <<"0">>, <<"f">>, <<"F">>, <<"F", "A", "L", "S", "E">>,
                    <<"f", "a", "l", "s", "e">>, <<"F", "a", "l", "s", "e">> }
    THEN [ok |-> TRUE, v |-> FALSE]
    ELSE [ok |-> FALSE, v |-> FALSE]

\* a float is <<m, k>>, standing for the float of the field's width nearest
\* to m / 10^k, with k as small as possible (so 1.50 and 1.5 are one value)
RECURSIVE Normal(_, _)
Normal(m, k) ==
    IF k > 0 /\ m % 10 = 0 THEN Normal(m \div 10, k - 1) ELSE <<m, k>>

FirstDot(s) ==
    IF \E i \in 1..Len(s) : s[i] = "."
    THEN CHOOSE i \in 1..Len(s) : s[i] = "." /\ \A j \in 1..(i - 1) : s[j] # "."
    ELSE 0

\* strconv.ParseFloat(s, bitSize) on decimal tokens: an optional sign, digits
\* with at most one point and at least one digit.  (Exponents, hexadecimal
\* floats, "inf" and "nan" need characters no modelled token has.)
ParseFloat(s, bitSize) ==
    IF s = <<>> THEN [ok |-> FALSE, v |-> <<0, 0>>]
    ELSE LET neg    == s[1] = "-"
             signed == s[1] \in {"+", "-"}
             body   == IF signed THEN Tail(s) ELSE s
             dot    == FirstDot(body)
             whole  == IF dot = 0 THEN body ELSE SubSeq(body, 1, dot - 1)
             frac   == IF dot = 0 THEN <<>> ELSE SubSeq(body, dot + 1, Len(body))
             m      == DecimalValue(whole \o frac)
         IN  IF whole \o frac = <<>> \/ m < 0 THEN [ok |-> FALSE, v |-> <<0, 0>>]
             ELSE [ok |-> TRUE,
                   v  |-> Normal(IF neg THEN 0 - m ELSE m, Len(frac))]

(***************************************************************************)
(* errors.go                                                               *)
(***************************************************************************)
ErrorCategoryDeserialization == "deserialization"
ErrorCategoryValidation == "validation"

\* Error{Category, Err}; Err is kept as its parts: what failed, and for
\* fmt.Errorf("field %q cannot parse %q as <word>", name, val) its arguments
Error(category, what, name, val, word) ==
    [Category |-> category, what |-> what, field |-> name, token |-> val, as |-> word]

(***************************************************************************)
(* reflect: kinds, zero values and the Set methods                         *)
(***************************************************************************)
IntKinds   == {"int", "int8", "int16", "int32", "int64"}
UintKinds  == {"uint", "uint8", "uint16", "uint32", "uint64"}
FloatKinds == {"float32", "float64"}
ScalarKinds == IntKinds \cup UintKinds \cup FloatKinds \cup {"bool", "string"}

\* the width of an integer kind; int and uint are 64 bits wide on the
\* platforms Go 1.18 is usually built for (and 32 elsewhere: both beyond reach)
Bits(kind) ==
    CASE kind \in {"int8", "uint8"}   -> 8
      [] kind \in {"int16", "uint16"} -> 16
      [] kind \in {"int32", "uint32"} -> 32
      [] OTHER                        -> 64

ZeroScalar(kind) ==
    CASE kind \in IntKinds \cup UintKinds -> 0
      [] kind \in FloatKinds              -> <<0, 0>>
      [] kind = "bool"                    -> FALSE
      [] OTHER                            -> <<>>

\* reflect.Value.SetInt: the int64 is converted to the field's kind, which
\* keeps its low bits (two's complement)
SetInt(kind, x) ==
    IF Reachable(Bits(kind))
    THEN LET m == Pow2(Bits(kind))
             h == Pow2(Bits(kind) - 1)
         IN  ((x + h) % m) - h
    ELSE x

\* reflect.Value.SetUint: the uint64 is converted to the field's kind
SetUint(kind, x) ==
    IF Reachable(Bits(kind)) THEN x % Pow2(Bits(kind)) ELSE x

(***************************************************************************)
(* setWithProperType(kind, val, field, name): field is the value the field *)
(* holds before the call.  Returns [err, field]: err is <<>> for nil or    *)
(* <<e>> for &e, field is the value the field holds after the call.        *)
(***************************************************************************)
CannotParse(name, val, word) ==
    <<Error(ErrorCategoryDeserialization, "cannot parse", name, val, word)>>

\* setWithProperType as it would be if a kind it has no case for were a
\* coercion failure
setWithProperTypeRejects(kind, val, field, name) ==
    CASE kind \in IntKinds ->
            LET v == IF val = <<>> THEN <<"0">> ELSE val
                p == ParseInt(v, 64)
            IN  IF ~p.ok THEN [err |-> CannotParse(name, v, "int"), field |-> field]
                ELSE [err |-> <<>>, field |-> SetInt(kind, p.v)]
      [] kind \in UintKinds ->
            LET v == IF val = <<>> THEN <<"0">> ELSE val
                p == ParseUint(v, 64)
            IN  IF ~p.ok THEN [err |-> CannotParse(name, v, "uint"), field |-> field]
                ELSE [err |-> <<>>, field |-> SetUint(kind, p.v)]
      [] kind = "bool" ->
            IF val = <<"o", "n">> THEN [err |-> <<>>, field |-> TRUE]
            ELSE LET v == IF val = <<>> THEN <<"f", "a", "l", "s", "e">> ELSE val
                     p == ParseBool(v)
                 IN  IF ~p.ok THEN [err |-> CannotParse(name, v, "bool"), field |-> field]
                     ELSE [err |-> <<>>, field |-> p.v]
      [] kind = "float32" ->
            LET v == IF val = <<>> THEN <<"0", ".", "0">> ELSE val
                p == ParseFloat(v, 32)
            IN  IF ~p.ok THEN [err |-> CannotParse(name, v, "float32"), field |-> field]
                ELSE [err |-> <<>>, field |-> p.v]
      [] kind = "float64" ->
            LET v == IF val = <<>> THEN <<"0", ".", "0">> ELSE val
                p == ParseFloat(v, 64)
            IN  IF ~p.ok THEN [err |-> CannotParse(name, v, "float64"), field |-> field]
                ELSE [err |-> <<>>, field |-> p.v]
      [] kind = "string" -> [err |-> <<>>, field |-> val]
      [] OTHER -> [err |-> CannotParse(name, val, kind), field |-> field]

setWithProperType(kind, val, field, name) ==
    CASE kind \in IntKinds ->
            LET v == IF val = <<>> THEN <<"0">> ELSE val
                p == ParseInt(v, 64)
            IN  IF ~p.ok THEN [err |-> CannotParse(name, v, "int"), field |-> field]
                ELSE [err |-> <<>>, field |-> SetInt(kind, p.v)]
      [] kind \in UintKinds ->
            LET v == IF val = <<>> THEN <<"0">> ELSE val
                p == ParseUint(v, 64)
            IN  IF ~p.ok THEN [err |-> CannotParse(name, v, "uint"), field |-> field]
                ELSE [err |-> <<>>, field |-> SetUint(kind, p.v)]
      [] kind = "bool" ->
            IF val = <<"o", "n">> THEN [err |-> <<>>, field |-> TRUE]
            ELSE LET v == IF val = <<>> THEN <<"f", "a", "l", "s", "e">> ELSE val
                     p == ParseBool(v)
                 IN  IF ~p.ok THEN [err |-> CannotParse(name, v, "bool"), field |-> field]
                     ELSE [err |-> <<>>, field |-> p.v]
      [] kind = "float32" ->
            LET v == IF val = <<>> THEN <<"0", ".", "0">> ELSE val
                p == ParseFloat(v, 32)
            IN  IF ~p.ok THEN [err |-> CannotParse(name, v, "float32"), field |-> field]
                ELSE [err |-> <<>>, field |-> p.v]
      [] kind = "float64" ->
            LET v == IF val = <<>> THEN <<"0", ".", "0">> ELSE val
                p == ParseFloat(v, 64)
            IN  IF ~p.ok THEN [err |-> CannotParse(name, v, "float64"), field |-> field]
                ELSE [err |-> <<>>, field |-> p.v]
      [] kind = "string" -> [err |-> <<>>, field |-> val]
      [] OTHER -> [err |-> <<>>, field |-> field]

(***************************************************************************)
(* Model shapes.  A struct type is the tuple of its fields in declaration  *)
(* order.  A field has its Go name, its `form` tag ("" when it has none),  *)
(* whether it is exported (reflect's CanSet, on an addressable struct) and *)
(* embedded (Anonymous), its kind, the kind of its elements when it is a   *)
(* slice, and the struct type a struct, pointer or slice-of-pointer field  *)
(* refers to.                                                              *)
(***************************************************************************)
Field(goName, tag, kind, elem, target, exported, anonymous) ==
    [Name |-> goName, tag |-> tag, kind |-> kind, elem |-> elem,
     target |-> target, exported |-> exported, Anonymous |-> anonymous]

Scalar(goName, tag, kind) == Field(goName, tag, kind, "", "", TRUE, FALSE)

StructTypes ==
    \* type account struct { Name string `form:"name"`; Age uint8 `form:"age"`;
    \*                       Male bool; secret int `form:"age"` }
    "account" :> << Scalar("Name", "name", "string"),
                    Scalar("Age", "age", "uint8"),
                    Scalar("Male", "", "bool"),
                    Field("secret", "age", "int", "", "", FALSE, FALSE) >>
    \* type address struct { City string `form:"city"`; ID int8 `form:"id"` }
    @@ "address" :> << Scalar("City", "city", "string"),
                       Scalar("ID", "id", "int8") >>
    \* type order struct { Address address `form:"address"`; ID int `form:"id"` }
    @@ "order" :> << Field("Address", "address", "struct", "", "address", TRUE, FALSE),
                     Scalar("ID", "id", "int") >>
    \* type Profile struct { Nick string `form:"nick"`; Score float64 `form:"score"` }
    @@ "Profile" :> << Scalar("Nick", "nick", "string"),
                       Scalar("Score", "score", "float64") >>
    \* type member struct { *Profile; Level int8 `form:"level"` }
    @@ "member" :> << Field("Profile", "", "ptr", "", "Profile", TRUE, TRUE),
                      Scalar("Level", "level", "int8") >>
    \* type contact struct { Addr *address `form:"addr"`; Email string `form:"email"` }
    @@ "contact" :> << Field("Addr", "addr", "ptr", "", "address", TRUE, FALSE),
                       Scalar("Email", "email", "string") >>
    \* type filter struct { IPs []uint8 `form:"ip"`; Tags []string `form:"tag"`;
    \*                      Limit float32 `form:"limit"` }
    @@ "filter" :> << Field("IPs", "ip", "slice", "uint8", "", TRUE, FALSE),
                      Field("Tags", "tag", "slice", "string", "", TRUE, FALSE),
                      Scalar("Limit", "limit", "float32") >>
    \* type upload struct { Title string `form:"title"`;
    \*                      Background *multipart.FileHeader `form:"background"`;
    \*                      Pictures []*multipart.FileHeader `form:"picture"` }
    @@ "upload" :> << Scalar("Title", "title", "string"),
                      Field("Background", "background", "ptr", "", "FileHeader", TRUE, FALSE),
                      Field("Pictures", "picture", "slice", "ptr", "FileHeader", TRUE, FALSE) >>

Models == {"account", "order", "member", "contact", "filter", "upload"}

\* reflect.Zero of a field's type, and of a struct type
RECURSIVE ZeroStruct(_)
ZeroField(f) ==
    CASE f.kind = "struct"      -> ZeroStruct(f.target)
      [] f.kind \in ScalarKinds -> ZeroScalar(f.kind)
      [] OTHER                  -> <<>>
ZeroStruct(typ) == [i \in 1..Len(StructTypes[typ]) |-> ZeroField(StructTypes[typ][i])]

\* the zero value of a slice element of kind elem
ZeroElem(elem) == IF elem \in ScalarKinds THEN ZeroScalar(elem) ELSE <<>>

\* the comparison with fhType as it would be if no type passed it
IsFileHeaderPtrNever(kind, target) == FALSE

\* reflect.TypeOf((*multipart.FileHeader)(nil))
IsFileHeaderPtr(kind, target) == kind = "ptr" /\ target = "FileHeader"

(***************************************************************************)
(* mapForm(obj, form, files, errs), obj of struct type typ.  Returns       *)
(* [obj, errs, panic]: the struct value after the call, the errors         *)
(* returned, and whether the call panicked instead of returning (an index  *)
(* out of range leaves no result).                                         *)
(***************************************************************************)
\* the loop over the values of a slice field as it would be if it coerced
\* the first value only
sliceFromFirst(sliceOf, inputValue, fieldName, slice, errs, j) ==
    With(setWithProperType(sliceOf, inputValue[1], slice[1], fieldName),
         LAMBDA r : [slice |-> [slice EXCEPT ![1] = r.field], errs |-> errs \o r.err])

\* the loop over the values of a slice field, from position j on
RECURSIVE sliceFrom(_, _, _, _, _, _)
sliceFrom(sliceOf, inputValue, fieldName, slice, errs, j) ==
    IF j > Len(inputValue) THEN [slice |-> slice, errs |-> errs]
    ELSE With(setWithProperType(sliceOf, inputValue[j], slice[j], fieldName),
              LAMBDA r :
                 sliceFrom(sliceOf, inputValue, fieldName,
                           [slice EXCEPT ![j] = r.field], errs \o r.err, j + 1))

\* the lookup as it would be if the file mapping were consulted before the
\* plain-value mapping
lookupFilesFirst(typeField, structField, form, files, errs) ==
    LET fieldName == IF typeField.tag = "" THEN typeField.Name ELSE typeField.tag
    IN  IF fieldName \in DOMAIN files
        THEN LET inputFile == files[fieldName]
                 numElems  == Len(inputFile)
             IN  IF /\ typeField.kind = "slice"
                    /\ numElems > 0
                    /\ IsFileHeaderPtr(typeField.elem, typeField.target)
                 THEN [val |-> inputFile, errs |-> errs, panic |-> FALSE]
                 ELSE IF IsFileHeaderPtr(typeField.kind, typeField.target)
                      THEN IF numElems = 0
                           THEN [val |-> structField, errs |-> errs, panic |-> TRUE]
                           ELSE [val |-> inputFile[1], errs |-> errs, panic |-> FALSE]
                      ELSE [val |-> structField, errs |-> errs, panic |-> FALSE]
        ELSE IF fieldName \notin DOMAIN form
        THEN [val |-> structField, errs |-> errs, panic |-> FALSE]
        ELSE LET inputValue == form[fieldName]
                 numElems   == Len(inputValue)
             IN  IF typeField.kind = "slice" /\ numElems > 0
                 THEN With(sliceFrom(typeField.elem, inputValue, fieldName,
                                     [j \in 1..numElems |-> ZeroElem(typeField.elem)],
                                     errs, 1),
                           LAMBDA r : [val |-> r.slice, errs |-> r.errs, panic |-> FALSE])
                 ELSE IF numElems = 0
                      THEN [val |-> structField, errs |-> errs, panic |-> TRUE]
                      ELSE With(setWithProperType(typeField.kind, inputValue[1],
                                                  structField, fieldName),
                                LAMBDA r : [val |-> r.field, errs |-> errs \o r.err,
                                            panic |-> FALSE])

\* the part of the loop body after the recursion: structField is the value
\* of field i by then
lookup(typeField, structField, form, files, errs) ==
    LET fieldName == IF typeField.tag = "" THEN typeField.Name ELSE typeField.tag
    IN  IF fieldName \in DOMAIN form
        THEN LET inputValue == form[fieldName]
                 numElems   == Len(inputValue)
             IN  IF typeField.kind = "slice" /\ numElems > 0
                 THEN With(sliceFrom(typeField.elem, inputValue, fieldName,
                                     [j \in 1..numElems |-> ZeroElem(typeField.elem)],
                                     errs, 1),
                           LAMBDA r : [val |-> r.slice, errs |-> r.errs, panic |-> FALSE])
                 ELSE IF numElems = 0
                      THEN [val |-> structField, errs |-> errs, panic |-> TRUE]
                      ELSE With(setWithProperType(typeField.kind, inputValue[1],
                                                  structField, fieldName),
                                LAMBDA r : [val |-> r.field, errs |-> errs \o r.err,
                                            panic |-> FALSE])
        ELSE IF fieldName \notin DOMAIN files
        THEN [val |-> structField, errs |-> errs, panic |-> FALSE]
        ELSE LET inputFile == files[fieldName]
                 numElems  == Len(inputFile)
             IN  IF /\ typeField.kind = "slice"
                    /\ numElems > 0
                    /\ IsFileHeaderPtr(typeField.elem, typeField.target)
                 THEN [val |-> inputFile, errs |-> errs, panic |-> FALSE]
                 ELSE IF IsFileHeaderPtr(typeField.kind, typeField.target)
                      THEN IF numElems = 0
                           THEN [val |-> structField, errs |-> errs, panic |-> TRUE]
                           ELSE [val |-> inputFile[1], errs |-> errs, panic |-> FALSE]
                      ELSE [val |-> structField, errs |-> errs, panic |-> FALSE]

RECURSIVE mapForm(_, _, _, _, _)
RECURSIVE mapFrom(_, _, _, _, _, _)

\* the loop body as it would be if it kept the target of an embedded pointer
\* whatever the recursion left in it
mapFieldKeeps(typ, obj, form, files, errs, i) ==
    LET typeField == StructTypes[typ][i]
    IN  IF ~typeField.exported
        THEN [obj |-> obj, errs |-> errs, panic |-> FALSE]
        ELSE With(
               IF typeField.kind = "ptr" /\ typeField.Anonymous
               THEN With(mapForm(typeField.target, ZeroStruct(typeField.target),
                                 form, files, errs),
                         LAMBDA r : [val |-> <<r.obj>>, errs |-> r.errs, panic |-> r.panic])
               ELSE IF typeField.kind = "struct"
               THEN With(mapForm(typeField.target, obj[i], form, files, errs),
                         LAMBDA r : [val |-> r.obj, errs |-> r.errs, panic |-> r.panic])
               ELSE [val |-> obj[i], errs |-> errs, panic |-> FALSE],
               LAMBDA sub :
                  IF sub.panic
                  THEN [obj |-> obj, errs |-> sub.errs, panic |-> TRUE]
                  ELSE With(lookup(typeField, sub.val, form, files, sub.errs),
                            LAMBDA r : [obj   |-> [obj EXCEPT ![i] = r.val],
                                        errs  |-> r.errs,
                                        panic |-> r.panic]))

\* the loop body as it would be if it allocated and descended into every
\* pointer to a record, embedded or named
mapFieldAnyPointer(typ, obj, form, files, errs, i) ==
    LET typeField == StructTypes[typ][i]
    IN  IF ~typeField.exported
        THEN [obj |-> obj, errs |-> errs, panic |-> FALSE]
        ELSE With(
               IF typeField.kind = "ptr" /\ typeField.target # "FileHeader"
               THEN With(mapForm(typeField.target, ZeroStruct(typeField.target),
                                 form, files, errs),
                         LAMBDA r : [val   |-> IF r.obj = ZeroStruct(typeField.target)
                                               THEN <<>> ELSE <<r.obj>>,
                                     errs  |-> r.errs,
                                     panic |-> r.panic])
               ELSE IF typeField.kind = "struct"
               THEN With(mapForm(typeField.target, obj[i], form, files, errs),
                         LAMBDA r : [val |-> r.obj, errs |-> r.errs, panic |-> r.panic])
               ELSE [val |-> obj[i], errs |-> errs, panic |-> FALSE],
               LAMBDA sub :
                  IF sub.panic
                  THEN [obj |-> obj, errs |-> sub.errs, panic |-> TRUE]
                  ELSE With(lookup(typeField, sub.val, form, files, sub.errs),
                            LAMBDA r : [obj   |-> [obj EXCEPT ![i] = r.val],
                                        errs  |-> r.errs,
                                        panic |-> r.panic]))

\* the loop body as it would be if discarding the target of an embedded
\* pointer also discarded the errors of mapping it
mapFieldForgets(typ, obj, form, files, errs, i) ==
    LET typeField == StructTypes[typ][i]
    IN  IF ~typeField.exported
        THEN [obj |-> obj, errs |-> errs, panic |-> FALSE]
        ELSE With(
               IF typeField.kind = "ptr" /\ typeField.Anonymous
               THEN With(mapForm(typeField.target, ZeroStruct(typeField.target),
                                 form, files, errs),
                         LAMBDA r : [val   |-> IF r.obj = ZeroStruct(typeField.target)
                                               THEN <<>> ELSE <<r.obj>>,
                                     errs  |-> IF r.obj = ZeroStruct(typeField.target)
                                               THEN errs ELSE r.errs,
                                     panic |-> r.panic])
               ELSE IF typeField.kind = "struct"
               THEN With(mapForm(typeField.target, obj[i], form, files, errs),
                         LAMBDA r : [val |-> r.obj, errs |-> r.errs, panic |-> r.panic])
               ELSE [val |-> obj[i], errs |-> errs, panic |-> FALSE],
               LAMBDA sub :
                  IF sub.panic
                  THEN [obj |-> obj, errs |-> sub.errs, panic |-> TRUE]
                  ELSE With(lookup(typeField, sub.val, form, files, sub.errs),
                            LAMBDA r : [obj   |-> [obj EXCEPT ![i] = r.val],
                                        errs  |-> r.errs,
                                        panic |-> r.panic]))

\* one pass of the loop body, for field i
mapField(typ, obj, form, files, errs, i) ==
    LET typeField == StructTypes[typ][i]
    IN  IF ~typeField.exported
        THEN [obj |-> obj, errs |-> errs, panic |-> FALSE]
        ELSE With(
               IF typeField.kind = "ptr" /\ typeField.Anonymous
               THEN With(mapForm(typeField.target, ZeroStruct(typeField.target),
                                 form, files, errs),
                         LAMBDA r : [val   |-> IF r.obj = ZeroStruct(typeField.target)
                                               THEN <<>> ELSE <<r.obj>>,
                                     errs  |-> r.errs,
                                     panic |-> r.panic])
               ELSE IF typeField.kind = "struct"
               THEN With(mapForm(typeField.target, obj[i], form, files, errs),
                         LAMBDA r : [val |-> r.obj, errs |-> r.errs, panic |-> r.panic])
               ELSE [val |-> obj[i], errs |-> errs, panic |-> FALSE],
               LAMBDA sub :
                  IF sub.panic
                  THEN [obj |-> obj, errs |-> sub.errs, panic |-> TRUE]
                  ELSE With(lookup(typeField, sub.val, form, files, sub.errs),
                            LAMBDA r : [obj   |-> [obj EXCEPT ![i] = r.val],
                                        errs  |-> r.errs,
                                        panic |-> r.panic]))

\* the loop as it would be if it returned at the first field that fails
RECURSIVE mapFromStop(_, _, _, _, _, _)
mapFromStop(typ, obj, form, files, errs, i) ==
    IF i > Len(StructTypes[typ])
    THEN [obj |-> obj, errs |-> errs, panic |-> FALSE]
    ELSE With(mapField(typ, obj, form, files, errs, i),
              LAMBDA r : IF r.panic \/ Len(r.errs) > Len(errs) THEN r
                         ELSE mapFromStop(typ, r.obj, form, files, r.errs, i + 1))

mapFrom(typ, obj, form, files, errs, i) ==
    IF i > Len(StructTypes[typ])
    THEN [obj |-> obj, errs |-> errs, panic |-> FALSE]
    ELSE With(mapField(typ, obj, form, files, errs, i),
              LAMBDA r : IF r.panic THEN r
                         ELSE mapFrom(typ, r.obj, form, files, r.errs, i + 1))

\* the loop as it would be if it started one field late
mapFormOffByOne(typ, obj, form, files, errs) == mapFrom(typ, obj, form, files, errs, 2)

mapForm(typ, obj, form, files, errs) == mapFrom(typ, obj, form, files, errs, 1)

(***************************************************************************)
(* SpecCoerce: one call of setWithProperType on a zero-valued field of     *)
(* every scalar kind, with every token.                                    *)
(***************************************************************************)
NoRet == [fn |-> "none"]
NoCall == [fn |-> "none"]
NoReg == [entry |-> "none"]
NoReq == [kind |-> "none"]
\* a context into which nothing was mapped yet: Map counts the calls of
\* c.Map, errs and obj are the values mapped (as <<v>>) for the types
\* Errors and the model's type
NoCtx == [Map |-> 0, errs |-> <<>>, obj |-> <<>>]

FieldNames == {"age", "Height"}

InitCoerce ==
    /\ pc = "call"
    /\ \E k \in ScalarKinds, t \in Tokens, n \in FieldNames :
          call = [fn |-> "setWithProperType", kind |-> k, val |-> t, name |-> n]
    /\ ret = NoRet
    /\ reg = NoReg
    /\ req = NoReq
    /\ ctx = NoCtx
    /\ hist = <<>>

Coerce ==
    /\ pc = "call"
    /\ call.fn = "setWithProperType"
    /\ LET r == setWithProperType(call.kind, call.val, ZeroScalar(call.kind), call.name)
       IN  ret' = [fn |-> "setWithProperType", err |-> r.err, field |-> r.field]
    /\ pc' = "done"
    /\ UNCHANGED <<call, reg, req, ctx, hist>>

NextCoerce == Coerce

SpecCoerce == InitCoerce /\ [][NextCoerce]_vars

(***************************************************************************)
(* SpecMapForm: one call of mapForm on a fresh zero-valued instance of     *)
(* every model, with every plain-value mapping and file mapping over the   *)
(* model's keys, and an error collection that is empty or already holds    *)
(* the error of the parse stage.                                           *)
(***************************************************************************)
\* the tokens of the mappings: empty, a numeral, a numeral beyond 8 bits,
\* a word that is no numeral, and the checkbox token
FormTokens == { <<>>, <<"1", "7">>, <<"3", "0", "0">>, <<"b", "a", "d">>, <<"o", "n">> }

\* the uploaded-file handles (*multipart.FileHeader)
Handles == { <<"f1">>, <<"f2">> }

\* the keys a mapping for a model is drawn over, and the tokens of its values
FormKeys(model) ==
    CASE model = "account" -> <<"name", "age", "Male">>
      [] model = "order"   -> <<"address", "city", "id">>
      [] model = "member"  -> <<"nick", "score", "level">>
      [] model = "contact" -> <<"addr", "city", "email">>
      [] model = "filter"  -> <<"ip", "tag", "limit">>
      [] model = "upload"  -> <<"background", "picture">>

FileKeys(model) ==
    IF model = "upload" THEN <<"title", "background", "picture">> ELSE <<>>

ModelTokens(model) == IF model = "upload" THEN {<<"1", "7">>} ELSE FormTokens

\* every mapping from some of the keys to tuples of values, with at most
\* budget values in all; a key may be present with no value
RECURSIVE Mappings(_, _, _)
Mappings(keys, values, budget) ==
    IF keys = <<>> THEN { <<>> }
    ELSE LET k == keys[1]
         IN  Mappings(Tail(keys), values, budget)
             \cup UNION { { (k :> l) @@ m : m \in Mappings(Tail(keys), values, budget - Len(l)) }
                          : l \in SeqsUpTo(values, budget) }

\* the error r.ParseForm or the multipart parser left in errs
ParseError == Error(ErrorCategoryDeserialization, "parse", "", <<>>, "")

InitMapForm ==
    /\ pc = "call"
    /\ \E model \in Models :
       \E form \in Mappings(FormKeys(model), ModelTokens(model), MaxFormVals) :
       \E files \in Mappings(FileKeys(model), Handles, MaxFileVals) :
       \E errs \in { <<>>, <<ParseError>> } :
          call = [fn |-> "mapForm", model |-> model, form |-> form,
                  files |-> files, errs |-> errs]
    /\ ret = NoRet
    /\ reg = NoReg
    /\ req = NoReq
    /\ ctx = NoCtx
    /\ hist = <<>>

MapForm ==
    /\ pc = "call"
    /\ call.fn = "mapForm"
    /\ LET r == mapForm(call.model, ZeroStruct(call.model), call.form, call.files, call.errs)
       IN  ret' = [fn |-> "mapForm", obj |-> r.obj, errs |-> r.errs, panic |-> r.panic]
    /\ pc' = "done"
    /\ UNCHANGED <<call, reg, req, ctx, hist>>

NextMapForm == MapForm

SpecMapForm == InitMapForm /\ [][NextMapForm]_vars

(***************************************************************************)
(* Spec: the entry points.  JSON, YAML, Form or MultipartForm is called    *)
(* with a model value and Options (registration) and returns a handler;    *)
(* the framework then serves one request through the handler chain of the  *)
(* route: the binding handler, then the route's own handler.               *)
(***************************************************************************)
\* most values (over all keys) in the form of a served request
MaxReqVals == 2

Entries == {"JSON", "YAML", "Form", "MultipartForm"}

\* Options.ErrorHandler: nil, a func(flamego.Context, Errors), or another
\* flamego.Handler (which is invoked through the injector)
ErrorHandlers == {"nil", "func(Context, Errors)", "Handler"}

\* the Options given at registration
OptionsGiven ==
    { [ErrorHandler |-> h, Validator |-> v.Validator, MaxMemory |-> v.MaxMemory] :
        h \in ErrorHandlers,
        v \in { [Validator |-> "nil", MaxMemory |-> 0],
                [Validator |-> "custom", MaxMemory |-> 4096] } }

DefaultMaxMemory == 10485760

\* ensureNotPointer as it would be if it let every model through
ensureNotPointerNever(model) == FALSE

\* ensureNotPointer(model): whether it panics
ensureNotPointer(model) == model.pointer

parseOptions(opts) ==
    [ErrorHandler |-> IF opts.ErrorHandler = "func(Context, Errors)"
                      THEN "errorHandlerInvoker" ELSE opts.ErrorHandler,
     Validator    |-> IF opts.Validator = "nil" THEN "validator.New()" ELSE opts.Validator,
     MaxMemory    |-> IF opts.MaxMemory <= 0 THEN DefaultMaxMemory ELSE opts.MaxMemory]

\* the request tokens: empty, a numeral, and a word that is no numeral
RequestTokens == { <<>>, <<"1", "7">>, <<"b", "a", "d">> }

\* what r.ParseForm and the multipart parser can produce for a model's keys:
\* every key that is present has one or more values
RequestForms(model) ==
    { f \in Mappings(FormKeys(model), ModelTokens(model) \cap RequestTokens, MaxReqVals) :
        \A k \in DOMAIN f : f[k] # <<>> }

RequestFiles(model) ==
    { f \in Mappings(FileKeys(model), Handles, MaxReqVals) :
        \A k \in DOMAIN f : f[k] # <<>> }

\* an instance a decoder has written into: every scalar field set
RECURSIVE Filled(_)
FilledField(f) ==
    CASE f.kind = "struct"                 -> Filled(f.target)
      [] f.kind \in IntKinds \cup UintKinds -> 7
      [] f.kind \in FloatKinds              -> <<15, 1>>
      [] f.kind = "bool"                    -> TRUE
      [] f.kind = "string"                  -> <<"x">>
      [] OTHER                              -> <<>>
Filled(typ) == [i \in 1..Len(StructTypes[typ]) |-> FilledField(StructTypes[typ][i])]

\* the bodies of JSON and YAML requests, by what the decoder does with them:
\* no body at all (r.Body == nil), an empty body (the decoder returns
\* io.EOF), a truncated document such as `{` (an error, nothing written), a
\* document of the wrong types (fields written, then an error), and a valid
\* document
Bodies == {"nil", "empty", "truncated", "mistyped", "valid"}

\* json.NewDecoder(r.Body).Decode(obj) and its YAML twin: [err, obj], err
\* being "" for nil
Decode(body, typ, obj) ==
    CASE body = "empty"     -> [err |-> "EOF", obj |-> obj]
      [] body = "truncated" -> [err |-> "unexpected EOF", obj |-> obj]
      [] body = "mistyped"  -> [err |-> "cannot unmarshal", obj |-> Filled(typ)]
      [] OTHER              -> [err |-> "", obj |-> Filled(typ)]

\* the requests an entry point may be given
Requests(entry, model) ==
    IF entry \in {"JSON", "YAML"}
    THEN { [kind |-> entry, Body |-> b, written |-> FALSE] : b \in Bodies }
    ELSE IF entry = "Form"
    THEN { [kind |-> entry, parseErr |-> e, Form |-> f, written |-> FALSE] :
             e \in BOOLEAN, f \in RequestForms(model) }
    ELSE \* r.MultipartForm is <<>> for nil, or <<form>>: parsed by an earlier
         \* handler.  parse is what parsing will do if it is attempted.
         { [kind |-> entry, MultipartForm |-> <<>>, parse |-> p,
            body |-> [Value |-> <<>>, File |-> <<>>], written |-> FALSE] :
             p \in {"MultipartReader fails", "ReadForm fails"} }
         \cup
         { [kind |-> entry,
            MultipartForm |-> IF pre THEN << [Value |-> f, File |-> g] >> ELSE <<>>,
            parse |-> "ok",
            body |-> [Value |-> f, File |-> g], written |-> FALSE] :
             f \in RequestForms(model), g \in RequestFiles(model), pre \in BOOLEAN }

Init ==
    /\ pc = "boot"
    /\ \E e \in Entries, m \in Models, p \in BOOLEAN, o \in OptionsGiven :
          reg = [entry |-> e, model |-> [type |-> m, pointer |-> p],
                 opts |-> o, opt |-> o, handler |-> FALSE]
    /\ call = NoCall
    /\ ret = NoRet
    /\ req = NoReq
    /\ ctx = NoCtx
    /\ hist = <<>>

\* JSON(model, opts...), YAML(...), Form(...) and MultipartForm(...):
\* registration.  Either ensureNotPointer panics, or the handler is returned.
Register(entry) ==
    /\ pc = "boot"
    /\ reg.entry = entry
    /\ IF ensureNotPointer(reg.model)
       THEN /\ pc' = "panicked"
            /\ hist' = Append(hist, "panic: binding: pointer can not be accepted as binding model")
            /\ reg' = reg
       ELSE /\ pc' = "idle"
            /\ hist' = hist
            /\ reg' = [reg EXCEPT !.opt = parseOptions(reg.opts), !.handler = TRUE]
    /\ UNCHANGED <<call, ret, req, ctx>>

\* the beginning of a handler as it would be if the handlers of one
\* registration shared one instance (the model value itself) instead of
\* allocating a new one for each request
ServeShared ==
    /\ pc = "idle"
    /\ reg.handler
    /\ \E r \in Requests(reg.entry, reg.model.type) : req' = r
    /\ call' = [fn |-> reg.entry, errs |-> <<>>,
                obj |-> IF ret.fn = "parked" /\ ret.pc \in {"validate", "dispatch"}
                        THEN ret.call.obj ELSE ZeroStruct(reg.model.type)]
    /\ pc' = "bind"
    /\ UNCHANGED <<reg, ret, ctx, hist>>

\* the framework receives a request for the route and calls the returned
\* handler, which begins with its declarations: var errs Errors, and (where
\* the code allocates it first) obj := reflect.New(reflect.TypeOf(model))
Serve ==
    /\ pc = "idle"
    /\ reg.handler
    /\ \E r \in Requests(reg.entry, reg.model.type) : req' = r
    /\ call' = [fn |-> reg.entry, errs |-> <<>>, obj |-> ZeroStruct(reg.model.type)]
    /\ pc' = "bind"
    /\ UNCHANGED <<reg, ret, ctx, hist>>

DecodeError(err) == Error(ErrorCategoryDeserialization, err, "", <<>>, "")

\* the handler of JSON (and of YAML, which differs in the decoder only), up
\* to its call of validateAndMap
DecodeBody(entry) ==
    /\ pc = "bind"
    /\ call.fn = entry
    /\ entry \in {"JSON", "YAML"}
    /\ IF req.Body = "nil"
       THEN /\ call' = call
            /\ hist' = hist
       ELSE LET d == Decode(req.Body, reg.model.type, call.obj)
            IN  /\ call' = [call EXCEPT
                              !.obj = d.obj,
                              !.errs = IF d.err # "" THEN Append(@, DecodeError(d.err)) ELSE @]
                /\ hist' = Append(hist, "Decode")
    /\ pc' = "validate"
    /\ UNCHANGED <<reg, ret, req, ctx>>

\* the handler of Form, up to its call of validateAndMap
ParseAndMapForm ==
    /\ pc = "bind"
    /\ call.fn = "Form"
    /\ LET errs == IF req.parseErr THEN Append(call.errs, ParseError) ELSE call.errs
           r    == mapForm(reg.model.type, call.obj, req.Form, <<>>, errs)
       IN  IF r.panic
           THEN /\ pc' = "panicked"
                /\ call' = call
                /\ hist' = hist \o <<"ParseForm", "mapForm", "panic: index out of range">>
           ELSE /\ pc' = "validate"
                /\ call' = [call EXCEPT !.obj = r.obj, !.errs = r.errs]
                /\ hist' = hist \o <<"ParseForm", "mapForm">>
    /\ UNCHANGED <<reg, ret, req, ctx>>

\* what r.MultipartReader() leaves in r.MultipartForm before it looks at the
\* body (net/http's multipartByReader): a form with no values and no files
multipartByReader == [Value |-> <<>>, File |-> <<>>]

\* the handler of MultipartForm as it would be without the guard
\* r.MultipartForm == nil: a request that was parsed already is handed to
\* r.MultipartReader() again, which refuses it
ParseAndMapMultipartAlways ==
    /\ pc = "bind"
    /\ call.fn = "MultipartForm"
    /\ LET fresh == req.MultipartForm = <<>>
           errs  == IF ~fresh \/ req.parse # "ok"
                    THEN Append(call.errs, ParseError) ELSE call.errs
           mpf   == IF ~fresh THEN req.MultipartForm
                    ELSE IF req.parse = "ok" THEN <<req.body>>
                    ELSE IF req.parse = "MultipartReader fails" THEN <<multipartByReader>>
                    ELSE <<>>
           steps == IF ~fresh \/ req.parse = "MultipartReader fails"
                    THEN <<"MultipartReader">>
                    ELSE <<"MultipartReader", "ReadForm">>
       IN  IF mpf = <<>>
           THEN /\ pc' = "validate"
                /\ call' = [call EXCEPT !.errs = errs]
                /\ req' = req
                /\ hist' = hist \o steps
           ELSE LET r == mapForm(reg.model.type, call.obj, mpf[1].Value, mpf[1].File, errs)
                IN  /\ req' = [req EXCEPT !.MultipartForm = mpf]
                    /\ pc' = "validate"
                    /\ call' = [call EXCEPT !.obj = r.obj, !.errs = r.errs]
                    /\ hist' = hist \o steps \o <<"mapForm">>
    /\ UNCHANGED <<reg, ret, ctx>>

\* ParseAndMapMultipart handing mapForm the plain values of the form only.
ParseAndMapMultipartValuesOnly ==
    /\ pc = "bind"
    /\ call.fn = "MultipartForm"
    /\ LET parsing == req.MultipartForm = <<>>
           errs    == IF parsing /\ req.parse # "ok"
                      THEN Append(call.errs, ParseError) ELSE call.errs
           mpf     == IF ~parsing THEN req.MultipartForm
                      ELSE IF req.parse = "ok" THEN <<req.body>>
                      ELSE IF req.parse = "MultipartReader fails" THEN <<multipartByReader>>
                      ELSE <<>>
           steps   == IF ~parsing THEN <<>>
                      ELSE IF req.parse = "MultipartReader fails" THEN <<"MultipartReader">>
                      ELSE <<"MultipartReader", "ReadForm">>
       IN  IF mpf = <<>>
           THEN /\ pc' = "validate"
                /\ call' = [call EXCEPT !.errs = errs]
                /\ req' = req
                /\ hist' = hist \o steps
           ELSE LET r == mapForm(reg.model.type, call.obj, mpf[1].Value, <<>>, errs)
                IN  /\ req' = [req EXCEPT !.MultipartForm = mpf]
                    /\ IF r.panic
                       THEN /\ pc' = "panicked"
                            /\ call' = call
                            /\ hist' = hist \o steps \o <<"mapForm", "panic: index out of range">>
                       ELSE /\ pc' = "validate"
                            /\ call' = [call EXCEPT !.obj = r.obj, !.errs = r.errs]
                            /\ hist' = hist \o steps \o <<"mapForm">>
    /\ UNCHANGED <<reg, ret, ctx>>

\* the handler of MultipartForm, up to its call of validateAndMap.  When
\* r.MultipartReader() fails, r.MultipartForm is left as it set it; when
\* ReadForm fails, the nil form it returns is assigned.
ParseAndMapMultipart ==
    /\ pc = "bind"
    /\ call.fn = "MultipartForm"
    /\ LET parsing == req.MultipartForm = <<>>
           errs    == IF parsing /\ req.parse # "ok"
                      THEN Append(call.errs, ParseError) ELSE call.errs
           mpf     == IF ~parsing THEN req.MultipartForm
                      ELSE IF req.parse = "ok" THEN <<req.body>>
                      ELSE IF req.parse = "MultipartReader fails" THEN <<multipartByReader>>
                      ELSE <<>>
           steps   == IF ~parsing THEN <<>>
                      ELSE IF req.parse = "MultipartReader fails" THEN <<"MultipartReader">>
                      ELSE <<"MultipartReader", "ReadForm">>
       IN  IF mpf = <<>>
           THEN /\ pc' = "validate"
                /\ call' = [call EXCEPT !.errs = errs]
                /\ req' = req
                /\ hist' = hist \o steps
           ELSE LET r == mapForm(reg.model.type, call.obj, mpf[1].Value, mpf[1].File, errs)
                IN  /\ req' = [req EXCEPT !.MultipartForm = mpf]
                    /\ IF r.panic
                       THEN /\ pc' = "panicked"
                            /\ call' = call
                            /\ hist' = hist \o steps \o <<"mapForm", "panic: index out of range">>
                       ELSE /\ pc' = "validate"
                            /\ call' = [call EXCEPT !.obj = r.obj, !.errs = r.errs]
                            /\ hist' = hist \o steps \o <<"mapForm">>
    /\ UNCHANGED <<reg, ret, ctx>>

ValidationError == Error(ErrorCategoryValidation, "validator", "", <<>>, "")

\* validateAndMap as it would be if it mapped the instance only when there
\* are no errors
validateAndMapWithholds ==
    /\ pc = "validate"
    /\ \E failed \in BOOLEAN :
          LET errs == IF failed THEN Append(call.errs, ValidationError) ELSE call.errs
          IN  /\ ctx' = [Map |-> ctx.Map + 1, errs |-> <<errs>>,
                         obj |-> IF errs = <<>> THEN <<call.obj>> ELSE <<>>]
              /\ hist' = hist \o <<"VarCtx", "Map">>
    /\ pc' = "dispatch"
    /\ UNCHANGED <<call, reg, ret, req>>

\* validateAndMap as it would be if it ran the validator only on an instance
\* that was bound without errors
validateAndMapSkips ==
    /\ pc = "validate"
    /\ IF call.errs # <<>>
       THEN /\ ctx' = [Map |-> ctx.Map + 1, errs |-> <<call.errs>>, obj |-> <<call.obj>>]
            /\ hist' = hist \o <<"Map">>
       ELSE \E failed \in BOOLEAN :
               LET errs == IF failed THEN Append(call.errs, ValidationError) ELSE call.errs
               IN  /\ ctx' = [Map |-> ctx.Map + 1, errs |-> <<errs>>, obj |-> <<call.obj>>]
                   /\ hist' = hist \o <<"VarCtx", "Map">>
    /\ pc' = "dispatch"
    /\ UNCHANGED <<call, reg, ret, req>>

\* validateAndMap as it would be if it put the validation error first
validateAndMapPrepends ==
    /\ pc = "validate"
    /\ \E failed \in BOOLEAN :
          LET errs == IF failed THEN <<ValidationError>> \o call.errs ELSE call.errs
          IN  /\ ctx' = [Map |-> ctx.Map + 1, errs |-> <<errs>>, obj |-> <<call.obj>>]
              /\ hist' = hist \o <<"VarCtx", "Map">>
    /\ pc' = "dispatch"
    /\ UNCHANGED <<call, reg, ret, req>>

\* validateAndMap(c, validate, obj, errs): the validator is the external
\* rule engine, which fails or not
validateAndMap ==
    /\ pc = "validate"
    /\ \E failed \in BOOLEAN :
          LET errs == IF failed THEN Append(call.errs, ValidationError) ELSE call.errs
          IN  /\ ctx' = [Map |-> ctx.Map + 1, errs |-> <<errs>>, obj |-> <<call.obj>>]
              /\ hist' = hist \o <<"VarCtx", "Map">>
    /\ pc' = "dispatch"
    /\ UNCHANGED <<call, reg, ret, req>>

\* panic("binding.<entry>: " + err.Error())
InvokePanic(entry) ==
    CASE entry = "JSON" -> "panic: binding.JSON: "
      [] entry = "YAML" -> "panic: binding.YAML: "
      [] entry = "Form" -> "panic: binding.Form: "
      [] OTHER          -> "panic: binding.MultipartForm: "

\* the end of a handler as it would be if it never invoked the ErrorHandler
DispatchNever ==
    /\ pc = "dispatch"
    /\ pc' = "returned"
    /\ call' = [call EXCEPT !.errs = ctx.errs[1]]
    /\ UNCHANGED <<reg, ret, ctx, req, hist>>

\* the end of a handler as it would be if it did not look at len(errs)
DispatchAlways ==
    /\ pc = "dispatch"
    /\ IF reg.opt.ErrorHandler # "nil"
       THEN \E writes \in BOOLEAN :
               /\ hist' = hist \o <<"Invoke", "ErrorHandler">>
               /\ req' = [req EXCEPT !.written = writes]
       ELSE hist' = hist /\ req' = req
    /\ pc' = "returned"
    /\ call' = [call EXCEPT !.errs = ctx.errs[1]]
    /\ UNCHANGED <<reg, ret, ctx>>

\* the end of every handler: errs is read back from the context, and the
\* ErrorHandler is invoked if there is one and errs is not empty.  An
\* errorHandlerInvoker always runs the handler; the injector may fail to
\* invoke any other handler, and then the binding handler panics.  The
\* handler that runs writes the response or does not.
Dispatch ==
    /\ pc = "dispatch"
    /\ LET errs == ctx.errs[1]
       IN  IF Len(errs) > 0 /\ reg.opt.ErrorHandler # "nil"
           THEN \/ /\ reg.opt.ErrorHandler = "Handler"
                   /\ pc' = "panicked"
                   /\ hist' = hist \o <<"Invoke", InvokePanic(call.fn)>>
                   /\ req' = req
                \/ \E writes \in BOOLEAN :
                      /\ pc' = "returned"
                      /\ hist' = hist \o <<"Invoke", "ErrorHandler">>
                      /\ req' = [req EXCEPT !.written = writes]
           ELSE /\ pc' = "returned"
                /\ hist' = hist
                /\ req' = req
    /\ call' = [call EXCEPT !.errs = ctx.errs[1]]
    /\ UNCHANGED <<reg, ret, ctx>>

\* the framework after the binding handler has returned: it goes on to the
\* route's own handler unless the response has been written
NextHandler ==
    /\ pc = "returned"
    /\ IF req.written
       THEN hist' = hist
       ELSE hist' = Append(hist, "route handler")
    /\ pc' = "finished"
    /\ UNCHANGED <<call, reg, ret, req, ctx>>

Next ==
    \/ Register("JSON")
    \/ Register("YAML")
    \/ Register("Form")
    \/ Register("MultipartForm")
    \/ Serve
    \/ DecodeBody("JSON")
    \/ DecodeBody("YAML")
    \/ ParseAndMapForm
    \/ ParseAndMapMultipart
    \/ validateAndMap
    \/ Dispatch
    \/ NextHandler

Spec == Init /\ [][Next]_vars

(***************************************************************************)
(* SpecMultipart: a request that passes through the handler of             *)
(* MultipartForm more than once, the chain of the route holding the        *)
(* handler again after it (the case of the guard r.MultipartForm == nil).  *)
(* ctx.Map counts the passes that were completed.                          *)
(***************************************************************************)
\* most passes of one request through the handler
MaxPasses == 2

InitMultipart == Init /\ reg.entry = "MultipartForm"

\* the framework goes on to the next handler of the chain, which is the
\* handler of MultipartForm again: a new invocation, with its own errs and
\* obj, on the same request
Reinvoke ==
    /\ pc = "returned"
    /\ call.fn = "MultipartForm"
    /\ ~req.written
    /\ ctx.Map < MaxPasses
    /\ call' = [fn |-> "MultipartForm", errs |-> <<>>, obj |-> ZeroStruct(reg.model.type)]
    /\ pc' = "bind"
    /\ UNCHANGED <<reg, ret, req, ctx, hist>>

NextMultipart ==
    \/ Register("MultipartForm")
    \/ Serve
    \/ ParseAndMapMultipart
    \/ validateAndMap
    \/ Dispatch
    \/ Reinvoke
    \/ NextHandler

SpecMultipart == InitMultipart /\ [][NextMultipart]_vars

(***************************************************************************)
(* SpecConcurrent: two requests in flight in the handler of one            *)
(* registration, each in its own goroutine.  pc, call, req, ctx and hist   *)
(* are those of the goroutine that is running; ret holds those of the      *)
(* other one, and Switch hands the processor over between any two steps.   *)
(* reg is what the two share.  A request is followed up to the point where *)
(* its instance and errors are mapped into its context.                    *)
(***************************************************************************)
\* most values (plain values and files together) of a request
MaxConcVals == 1

ConcurrentModels == {"account", "upload"}

RECURSIVE Values(_, _)
Values(f, keys) ==
    IF keys = {} THEN 0
    ELSE LET k == CHOOSE x \in keys : TRUE
         IN  Len(f[k]) + Values(f, keys \ {k})

ReqSize(r) ==
    CASE r.kind = "Form" -> Values(r.Form, DOMAIN r.Form)
      [] r.kind = "MultipartForm" ->
            Values(r.body.Value, DOMAIN r.body.Value) + Values(r.body.File, DOMAIN r.body.File)
      [] OTHER -> 0

\* the ErrorHandler is not reached here, so one Options value stands for all
InitConcurrent ==
    /\ Init
    /\ reg.model.type \in ConcurrentModels
    /\ reg.opts = [ErrorHandler |-> "nil", Validator |-> "nil", MaxMemory |-> 0]

Parked(p, c, r, x, h) == [fn |-> "parked", pc |-> p, call |-> c, req |-> r, ctx |-> x, hist |-> h]

\* a second request arrives: its goroutine is yet to run
Arrive ==
    /\ pc = "idle"
    /\ reg.handler
    /\ ret = NoRet
    /\ ret' = Parked("idle", NoCall, NoReq, NoCtx, <<>>)
    /\ UNCHANGED <<pc, call, reg, req, ctx, hist>>

\* the scheduler runs the other goroutine
Switch ==
    /\ ret.fn = "parked"
    /\ ret' = Parked(pc, call, req, ctx, hist)
    /\ pc' = ret.pc
    /\ call' = ret.call
    /\ req' = ret.req
    /\ ctx' = ret.ctx
    /\ hist' = ret.hist
    /\ UNCHANGED reg

ServeConcurrent == Serve /\ ReqSize(req') <= MaxConcVals

NextConcurrent ==
    \/ Register("JSON")
    \/ Register("YAML")
    \/ Register("Form")
    \/ Register("MultipartForm")
    \/ Arrive
    \/ Switch
    \/ ServeConcurrent
    \/ DecodeBody("JSON")
    \/ DecodeBody("YAML")
    \/ ParseAndMapForm
    \/ ParseAndMapMultipart
    \/ validateAndMap

SpecConcurrent == InitConcurrent /\ [][NextConcurrent]_vars

(***************************************************************************)
(* Properties of type coercion (stated of SpecCoerce).                     *)
(***************************************************************************)
Coerced == pc = "done" /\ call.fn = "setWithProperType"

\* what a base-10 numeral of each family looks like, said without parsing
AllDigits(s) == s # <<>> /\ \A i \in 1..Len(s) : s[i] \in Digits
Unsigned(s) == IF s # <<>> /\ s[1] \in {"+", "-"} THEN Tail(s) ELSE s
IsIntNumeral(s) == AllDigits(Unsigned(s))
IsUintNumeral(s) == AllDigits(s)
IsFloatNumeral(s) ==
    LET b == Unsigned(s)
    IN  /\ \A i \in 1..Len(b) : b[i] \in Digits \cup {"."}
        /\ Cardinality({i \in 1..Len(b) : b[i] = "."}) <= 1
        /\ \E i \in 1..Len(b) : b[i] \in Digits

IsNumeral(kind, s) ==
    CASE kind \in IntKinds  -> IsIntNumeral(s)
      [] kind \in UintKinds -> IsUintNumeral(s)
      [] OTHER              -> IsFloatNumeral(s)

KindWord(kind) ==
    CASE kind \in IntKinds  -> "int"
      [] kind \in UintKinds -> "uint"
      [] OTHER              -> kind

\* C2: a numeric field given a non-empty token that is no numeral of the
\* field's family gets exactly one error, of category deserialization, saying
\* field "<name>" cannot parse "<token>" as <int|uint|float32|float64>, and
\* the field keeps its zero value.
C2_NonNumericTokenFails ==
    (/\ Coerced
     /\ call.kind \in IntKinds \cup UintKinds \cup FloatKinds
     /\ call.val # <<>>
     /\ ~IsNumeral(call.kind, call.val))
    => /\ ret.err = <<[Category |-> "deserialization", what |-> "cannot parse",
                       field |-> call.name, token |-> call.val,
                       as |-> KindWord(call.kind)]>>
       /\ ret.field = ZeroScalar(call.kind)

C2_Witness ==
    /\ Coerced
    /\ call.kind = "float32"
    /\ call.val = <<"b", "a", "d">>
    /\ Len(ret.err) = 1
    /\ ret.err[1].as = "float32"

\* C9 as the specification words it: on a boolean field "on" and "true" give true, the empty
\* token and "false" give false, and every other token gives exactly one
\* deserialization error and leaves the field unwritten.
C9_OnlyFourTokensAccepted ==
    (Coerced /\ call.kind = "bool") =>
        CASE call.val \in {<<"o", "n">>, <<"t", "r", "u", "e">>} ->
                ret.err = <<>> /\ ret.field = TRUE
          [] call.val \in {<<>>, <<"f", "a", "l", "s", "e">>} ->
                ret.err = <<>> /\ ret.field = FALSE
          [] OTHER ->
                /\ Len(ret.err) = 1
                /\ ret.err[1].Category = "deserialization"
                /\ ret.field = FALSE

BoolTrueTokens ==
    { <<"o", "n">>, <<"1">>, <<"t">>, <<"T">>, <<"t", "r", "u", "e">>,
      <<"T", "R", "U", "E">>, <<"T", "r", "u", "e">> }
BoolFalseTokens ==
    { <<>>, <<"0">>, <<"f">>, <<"F">>, <<"f", "a", "l", "s", "e">>,
      <<"F", "A", "L", "S", "E">>, <<"F", "a", "l", "s", "e">> }

\* C9 (amended): on a boolean field the tokens on, 1, t, T, true, TRUE and
\* True give true, the empty token and 0, f, F, false, FALSE and False give
\* false, and every other token gives exactly one deserialization error
\* (cannot parse ... as bool) and leaves the field unwritten.
C9_BoolTokens ==
    (Coerced /\ call.kind = "bool") =>
        CASE call.val \in BoolTrueTokens  -> ret.err = <<>> /\ ret.field = TRUE
          [] call.val \in BoolFalseTokens -> ret.err = <<>> /\ ret.field = FALSE
          [] OTHER ->
                /\ ret.err = <<[Category |-> "deserialization", what |-> "cannot parse",
                                field |-> call.name, token |-> call.val, as |-> "bool"]>>
                /\ ret.field = FALSE

C9_Witness ==
    /\ Coerced
    /\ call.kind = "bool"
    /\ call.val = <<"1">>
    /\ ret.err = <<>>
    /\ ret.field = TRUE

\* the range of an integer kind, where a modelled token can leave it
InRange(kind, v) ==
    IF ~Reachable(Bits(kind)) THEN TRUE
    ELSE IF kind \in UintKinds THEN 0 <= v /\ v <= Pow2(Bits(kind)) - 1
    ELSE 0 - Pow2(Bits(kind) - 1) <= v /\ v <= Pow2(Bits(kind) - 1) - 1

NumeralValue(s) ==
    IF s # <<>> /\ s[1] = "-" THEN 0 - DecimalValue(Tail(s))
    ELSE DecimalValue(Unsigned(s))

\* C10: on a signed or unsigned integer field of any width the empty token
\* gives zero, a base-10 numeral whose value fits the field's kind is stored
\* exactly, and a numeral whose value overflows the field's kind gives one
\* deserialization error and leaves the field at zero.
C10_OverflowIsFailure ==
    (Coerced /\ call.kind \in IntKinds \cup UintKinds) =>
        IF call.val = <<>> THEN ret.err = <<>> /\ ret.field = 0
        ELSE IF ~IsNumeral(call.kind, call.val) THEN TRUE
        ELSE IF InRange(call.kind, NumeralValue(call.val))
             THEN ret.err = <<>> /\ ret.field = NumeralValue(call.val)
        ELSE /\ Len(ret.err) = 1
             /\ ret.err[1].Category = "deserialization"
             /\ ret.field = 0

(***************************************************************************)
(* Properties of the form mapper (stated of SpecMapForm).                  *)
(***************************************************************************)
Mapped == pc = "done" /\ call.fn = "mapForm"

\* The fields the mapper addresses by key, in declaration order: the
\* writable scalar and slice-of-scalar fields of the model, of its nested
\* records and of its embedded optional records, a record's fields standing
\* at the record's position in its parent.  A leaf is the path of field
\* indices that leads to it, its external key name, its kind and the kind of
\* its elements.
RECURSIVE LeavesFrom(_, _, _)
LeavesFrom(typ, prefix, i) ==
    IF i > Len(StructTypes[typ]) THEN <<>>
    ELSE LET f    == StructTypes[typ][i]
             here ==
               IF ~f.exported THEN <<>>
               ELSE IF f.kind = "struct" \/ (f.kind = "ptr" /\ f.Anonymous)
               THEN LeavesFrom(f.target, Append(prefix, i), 1)
               ELSE IF f.kind \in ScalarKinds \/ (f.kind = "slice" /\ f.elem \in ScalarKinds)
               THEN << [path |-> Append(prefix, i),
                        key  |-> IF f.tag = "" THEN f.Name ELSE f.tag,
                        kind |-> f.kind, elem |-> f.elem] >>
               ELSE <<>>
         IN  here \o LeavesFrom(typ, prefix, i + 1)

Leaves(model) == LeavesFrom(model, <<>>, 1)

\* the value at a path, as <<v>>, or <<>> when the path runs through an
\* embedded optional record that is absent
RECURSIVE Walk(_, _, _)
Walk(typ, v, path) ==
    LET f == StructTypes[typ][path[1]]
        x == v[path[1]]
    IN  IF Len(path) = 1 THEN <<x>>
        ELSE IF f.kind = "struct" THEN Walk(f.target, x, Tail(path))
        ELSE IF x = <<>> THEN <<>>
        ELSE Walk(f.target, x[1], Tail(path))

LeafZero(leaf) == IF leaf.kind = "slice" THEN <<>> ELSE ZeroScalar(leaf.kind)

\* the value a leaf holds in an instance; a field of an embedded optional
\* record that is absent counts as holding its zero value
FieldValue(model, obj, leaf) ==
    LET w == Walk(model, obj, leaf.path)
    IN  IF w = <<>> THEN LeafZero(leaf) ELSE w[1]

\* a token that is valid for a kind, and the value it stands for (4.1)
ValidToken(kind, tok) ==
    CASE kind \in IntKinds \cup UintKinds ->
            tok = <<>> \/ (IsNumeral(kind, tok) /\ InRange(kind, NumeralValue(tok)))
      [] kind \in FloatKinds -> tok = <<>> \/ IsFloatNumeral(tok)
      [] kind = "bool"       -> tok \in BoolTrueTokens \cup BoolFalseTokens
      [] OTHER               -> TRUE

DecimalOf(tok) ==
    LET b      == Unsigned(tok)
        digits == SelectSeq(b, LAMBDA c : c # ".")
        dot    == FirstDot(b)
        k      == IF dot = 0 THEN 0 ELSE Len(b) - dot
        m      == DecimalValue(digits)
    IN  Normal(IF tok[1] = "-" THEN 0 - m ELSE m, k)

CoercionOf(kind, tok) ==
    CASE kind \in IntKinds \cup UintKinds -> IF tok = <<>> THEN 0 ELSE NumeralValue(tok)
      [] kind \in FloatKinds -> IF tok = <<>> THEN <<0, 0>> ELSE DecimalOf(tok)
      [] kind = "bool"       -> tok \in BoolTrueTokens
      [] OTHER               -> tok

\* a token no parser of the kind's family accepts
Unparseable(kind, tok) ==
    CASE kind \in IntKinds \cup UintKinds \cup FloatKinds ->
            tok # <<>> /\ ~IsNumeral(kind, tok)
      [] kind = "bool" -> tok \notin BoolTrueTokens \cup BoolFalseTokens
      [] OTHER         -> FALSE

LeafKind(leaf) == IF leaf.kind = "slice" THEN leaf.elem ELSE leaf.kind

\* a source mapping (3), of plain values or of file handles: every key it
\* has maps to one or more values
IsSourceMapping(form) == \A k \in DOMAIN form : form[k] # <<>>

\* every leaf's key is present, with one or more tokens, all valid for it
FullyPopulated(model, form) ==
    LET ls == Leaves(model)
    IN  \A n \in 1..Len(ls) :
            /\ ls[n].key \in DOMAIN form
            /\ form[ls[n].key] # <<>>
            /\ \A j \in 1..Len(form[ls[n].key]) :
                   ValidToken(LeafKind(ls[n]), form[ls[n].key][j])

\* C1: mapForm run on a fresh zero-valued instance, with a source mapping in
\* which the key of every writable field is present with tokens valid for
\* the field's kind, leaves every field equal to the coercion of its source
\* value (a slice field: of its values, position by position) and adds no
\* entry to the error collection.
C1_WellFormedSourceMapsExactly ==
    (/\ Mapped
     /\ IsSourceMapping(call.form)
     /\ IsSourceMapping(call.files)
     /\ FullyPopulated(call.model, call.form))
    => /\ ~ret.panic
       /\ ret.errs = call.errs
       /\ LET ls == Leaves(call.model)
          IN  \A n \in 1..Len(ls) :
                 LET toks == call.form[ls[n].key]
                     got  == FieldValue(call.model, ret.obj, ls[n])
                 IN  IF ls[n].kind = "slice"
                     THEN got = [j \in 1..Len(toks) |-> CoercionOf(ls[n].elem, toks[j])]
                     ELSE got = CoercionOf(ls[n].kind, toks[1])

C1_Witness ==
    /\ Mapped
    /\ call.model = "order"
    /\ FullyPopulated(call.model, call.form)
    /\ call.form["id"] = << <<"1", "7">> >>
    /\ call.form["city"] = << <<"o", "n">> >>
    /\ ret.obj = << << <<"o", "n">>, 17 >>, 17 >>
    /\ ret.errs = call.errs

\* the errors a leaf's tokens call for: one for a scalar field whose first
\* token is unparseable, one per unparseable position for a slice field
RECURSIVE FailuresOf(_, _, _)
FailuresOf(leaf, toks, j) ==
    IF j > Len(toks) \/ (j > 1 /\ leaf.kind # "slice") THEN <<>>
    ELSE (IF Unparseable(LeafKind(leaf), toks[j])
          THEN << [Category |-> "deserialization", what |-> "cannot parse",
                   field |-> leaf.key, token |-> toks[j],
                   as |-> KindWord(LeafKind(leaf))] >>
          ELSE <<>>)
         \o FailuresOf(leaf, toks, j + 1)

RECURSIVE ExpectedErrors(_, _, _)
ExpectedErrors(ls, form, n) ==
    IF n > Len(ls) THEN <<>>
    ELSE (IF ls[n].key \in DOMAIN form THEN FailuresOf(ls[n], form[ls[n].key], 1) ELSE <<>>)
         \o ExpectedErrors(ls, form, n + 1)

\* every token a field is given is either valid for the field's kind or
\* unparseable (an integer numeral beyond the field's width is neither)
ValidOrUnparseable(model, form) ==
    LET ls == Leaves(model)
    IN  \A n \in 1..Len(ls) :
           ls[n].key \in DOMAIN form =>
              \A j \in 1..Len(form[ls[n].key]) :
                 (j = 1 \/ ls[n].kind = "slice") =>
                    \/ ValidToken(LeafKind(ls[n]), form[ls[n].key][j])
                    \/ Unparseable(LeafKind(ls[n]), form[ls[n].key][j])

\* C3: mapForm never stops at a failing field.  For every model and source
\* mapping it returns having visited every field: the errors it appends are
\* exactly the errors of the unparseable tokens, one per failing scalar
\* field (and per failing position of a slice), in field declaration order
\* with a nested record's errors at the record's position, and every other
\* matched field holds its coerced value.
C3_AllFailuresCollectedInOrder ==
    (/\ Mapped
     /\ IsSourceMapping(call.form)
     /\ IsSourceMapping(call.files)
     /\ ValidOrUnparseable(call.model, call.form))
    => /\ ~ret.panic
       /\ ret.errs = call.errs \o ExpectedErrors(Leaves(call.model), call.form, 1)
       /\ LET ls == Leaves(call.model)
          IN  \A n \in 1..Len(ls) :
                 ls[n].key \in DOMAIN call.form =>
                    LET toks == call.form[ls[n].key]
                        got  == FieldValue(call.model, ret.obj, ls[n])
                        want(kind, tok) == IF Unparseable(kind, tok) THEN ZeroScalar(kind)
                                           ELSE CoercionOf(kind, tok)
                    IN  IF ls[n].kind = "slice"
                        THEN got = [j \in 1..Len(toks) |-> want(ls[n].elem, toks[j])]
                        ELSE got = want(ls[n].kind, toks[1])

\* two scalar fields fail, the nested one first; the third field is mapped
C3_Witness ==
    /\ Mapped
    /\ call.model = "order"
    /\ call.form = ("city" :> << <<"1", "7">> >>) @@ ("id" :> << <<"b", "a", "d">> >>)
    /\ Len(ret.errs) = Len(call.errs) + 2
    /\ ret.errs[Len(ret.errs) - 1].as = "int"
    /\ ret.errs[Len(ret.errs)].as = "int"
    /\ ret.obj = << << <<"1", "7">>, 0 >>, 0 >>

(***************************************************************************)
(* Properties of the entry points (stated of Spec).                        *)
(***************************************************************************)
Count(h, e) == Cardinality({i \in 1..Len(h) : h[i] = e})
Occurs(h, e) == \E i \in 1..Len(h) : h[i] = e
Position(h, e) == CHOOSE i \in 1..Len(h) : h[i] = e

\* the binding handler has passed its last statement for this request
Dispatched == pc \in {"returned", "finished"} \/ (pc = "panicked" /\ ctx.Map > 0)

\* the error collection exposed to the context
Exposed == ctx.errs[1]

Configured == reg.opts.ErrorHandler # "nil"

\* C4 as the specification words it: on a request whose final error collection is not empty,
\* with an ErrorHandler configured, the ErrorHandler is invoked and the
\* route's own handler does not run.
C4_RouteHandlerNeverRuns ==
    (pc = "finished" /\ Exposed # <<>> /\ Configured)
    => /\ Occurs(hist, "Invoke")
       /\ ~Occurs(hist, "route handler")

\* C4 (amended): for each entry point, on a request whose final error
\* collection is not empty, with an ErrorHandler configured, the ErrorHandler
\* is invoked exactly once, after which the binding handler returns without
\* stopping the chain: the route's own handler is skipped if the ErrorHandler
\* wrote the response (or could not be invoked, which panics), and runs after
\* an ErrorHandler that wrote nothing.
C4_RouteHandlerSkippedIfWritten ==
    (Dispatched /\ Exposed # <<>> /\ Configured)
    => /\ Count(hist, "Invoke") = 1
       /\ pc = "panicked" =>
             ~Occurs(hist, "ErrorHandler") /\ ~Occurs(hist, "route handler")
       /\ pc = "returned" =>
             Occurs(hist, "ErrorHandler") /\ ~Occurs(hist, "route handler")
       /\ pc = "finished" =>
             /\ Occurs(hist, "ErrorHandler")
             /\ Occurs(hist, "route handler") <=> ~req.written

C4_Witness ==
    /\ pc = "finished"
    /\ Exposed # <<>>
    /\ Configured
    /\ req.written
    /\ Occurs(hist, "ErrorHandler")
    /\ ~Occurs(hist, "route handler")

\* C5: for each entry point and every request the ErrorHandler is invoked at
\* most once, and it is invoked if and only if one is configured and the
\* error collection exposed to the context is not empty; when the collection
\* is empty, or no ErrorHandler is configured (even with errors), the route's
\* own handler runs.
C5_ErrorHandlerIffConfiguredAndErrors ==
    /\ Count(hist, "Invoke") <= 1
    /\ Count(hist, "ErrorHandler") <= 1
    /\ ~Dispatched => ~Occurs(hist, "Invoke")
    /\ Dispatched => (Occurs(hist, "Invoke") <=> (Configured /\ Exposed # <<>>))
    /\ (pc = "finished" /\ (Exposed = <<>> \/ ~Configured)) => Occurs(hist, "route handler")
    /\ (Dispatched /\ (Exposed = <<>> \/ ~Configured)) => pc # "panicked"

C5_Witness ==
    /\ pc = "finished"
    /\ ~Configured
    /\ Exposed # <<>>
    /\ ~Occurs(hist, "Invoke")
    /\ Occurs(hist, "route handler")

\* C6: for each entry point and on every path of a request (decoding or
\* parsing failed or not, mapping errors or none, validation failed or not)
\* the model instance and the error collection are mapped into the context
\* together, by one call, exactly once, before the ErrorHandler or the
\* route's own handler runs; the instance mapped is the one the handler
\* built, however many errors there are.
C6_InstanceAndErrorsMappedOnce ==
    /\ ctx.Map <= 1
    /\ Count(hist, "Map") = ctx.Map
    /\ (ctx.errs = <<>>) <=> (ctx.obj = <<>>)
    /\ (ctx.Map = 1) <=> (ctx.obj # <<>>)
    /\ (pc \in {"dispatch", "returned", "finished"} \/ (pc = "panicked" /\ reg.handler))
          => ctx.Map = 1 /\ ctx.obj = <<call.obj>>
    /\ \A e \in {"Invoke", "ErrorHandler", "route handler"} :
          Occurs(hist, e) => Occurs(hist, "Map") /\ Position(hist, "Map") < Position(hist, e)

C6_Witness ==
    /\ pc = "finished"
    /\ reg.entry = "MultipartForm"
    /\ Len(Exposed) = 2
    /\ ctx.Map = 1
    /\ ctx.obj[1] # ZeroStruct(reg.model.type)
    /\ Occurs(hist, "route handler")

\* the stage an error of the collection comes from
Stage(e) ==
    CASE e.Category = "validation" -> 3
      [] e.what = "cannot parse"   -> 2
      [] OTHER                     -> 1

\* C7: for each entry point, in the error collection exposed for a request
\* every deserialization error precedes every validation error: the error of
\* the body or parse stage comes first, then the coercion errors of the
\* fields, then the validation error.
C7_DeserializationBeforeValidation ==
    ctx.Map > 0 =>
       /\ \A i, j \in 1..Len(Exposed) : i < j => Stage(Exposed[i]) <= Stage(Exposed[j])
       /\ \A i, j \in 1..Len(Exposed) :
             (Exposed[i].Category = "validation" /\ Exposed[j].Category = "deserialization")
                => j < i
       /\ \A i \in 1..Len(Exposed) :
             Exposed[i].Category \in {"deserialization", "validation"}

C7_Witness ==
    /\ ctx.Map > 0
    /\ reg.entry = "Form"
    /\ Len(Exposed) = 3
    /\ Stage(Exposed[1]) = 1
    /\ Stage(Exposed[2]) = 2
    /\ Stage(Exposed[3]) = 3

PointerPanic == "panic: binding: pointer can not be accepted as binding model"

\* C8: JSON, YAML, Form or MultipartForm called with a model value that is a
\* pointer panics at registration with "binding: pointer can not be accepted
\* as binding model", before a handler is returned or a request is served;
\* called with a model value that is no pointer it returns the handler, and
\* no such panic occurs while requests are served.
C8_PointerModelPanicsAtRegistration ==
    pc # "boot" =>
       IF reg.model.pointer
       THEN /\ pc = "panicked"
            /\ hist = <<PointerPanic>>
            /\ ~reg.handler
            /\ req = NoReq
            /\ ctx = NoCtx
       ELSE /\ reg.handler
            /\ ~Occurs(hist, PointerPanic)

C8_Witness ==
    /\ pc = "panicked"
    /\ reg.model.pointer
    /\ reg.entry = "YAML"
    /\ hist = <<PointerPanic>>

\* the call of mapForm has returned (it did not panic)
Completed == Mapped /\ ~ret.panic

\* no field of the instance v, at any depth, is a non-nil pointer to an
\* all-zero record
RECURSIVE NoEmptyPointee(_, _)
NoEmptyPointee(typ, v) ==
    \A i \in 1..Len(StructTypes[typ]) :
       LET f == StructTypes[typ][i]
       IN  CASE f.kind = "struct" -> NoEmptyPointee(f.target, v[i])
             [] f.kind = "ptr" /\ f.target # "FileHeader" ->
                   \/ v[i] = <<>>
                   \/ /\ v[i][1] # ZeroStruct(f.target)
                      /\ NoEmptyPointee(f.target, v[i][1])
             [] OTHER -> TRUE

\* the keys by which the fields of a record type are addressed
KeysOf(typ) == { Leaves(typ)[n].key : n \in 1..Len(Leaves(typ)) }

\* C11: after mapForm has completed, a field that is a pointer to a record is
\* nil whenever the record populated from the source equals its zero value,
\* in particular whenever no key of the source matches a field of the
\* record; it is never a non-nil pointer to an all-zero record.
C11_NoEmptyOptionalRecord ==
    Completed =>
       /\ NoEmptyPointee(call.model, ret.obj)
       /\ \A i \in 1..Len(StructTypes[call.model]) :
             LET f == StructTypes[call.model][i]
             IN  (/\ f.kind = "ptr"
                  /\ f.target # "FileHeader"
                  /\ KeysOf(f.target) \cap (DOMAIN call.form \cup DOMAIN call.files) = {})
                 => ret.obj[i] = <<>>

\* matched keys whose values coerce to zero: the allocation is discarded
C11_Witness ==
    /\ Completed
    /\ call.model = "member"
    /\ DOMAIN call.form = {"nick", "score"}
    /\ call.form["nick"] = << <<>> >>
    /\ call.form["score"] = << <<"b", "a", "d">> >>
    /\ ret.obj[1] = <<>>
    /\ Len(ret.errs) = Len(call.errs) + 1

(***************************************************************************)
(* Properties of repeated multipart binding (stated of SpecMultipart).     *)
(***************************************************************************)
\* the request's multipart form is set
FormIsSet == req.kind = "MultipartForm" /\ req.MultipartForm # <<>>

NoParseError(errs) == \A i \in 1..Len(errs) : errs[i].what # "parse"

\* C12: over any sequence of invocations of the MultipartForm handler on one
\* request, once the request's multipart form is set it stays as it is, and
\* an invocation that finds it set calls neither r.MultipartReader nor
\* ReadForm and appends no error of the parse stage: it only maps from the
\* form that is there.
C12_ParsedFormIsNotParsedAgain ==
    [][ FormIsSet =>
          /\ req'.MultipartForm = req.MultipartForm
          /\ Count(hist', "MultipartReader") = Count(hist, "MultipartReader")
          /\ Count(hist', "ReadForm") = Count(hist, "ReadForm")
          /\ (pc = "bind" /\ pc' # "bind") =>
                /\ hist' = Append(hist, "mapForm")
                /\ NoParseError(call'.errs)
      ]_vars

\* a second invocation has completed on a request the first one parsed
C12_Witness ==
    /\ FormIsSet
    /\ ctx.Map = 2
    /\ pc = "dispatch"
    /\ Count(hist, "MultipartReader") = 1
    /\ Count(hist, "ReadForm") = 1
    /\ Count(hist, "mapForm") = 2
    /\ ctx.obj[1] # ZeroStruct(reg.model.type)
    /\ NoParseError(Exposed)

(***************************************************************************)
(* Properties of the decode and validation stages (stated of Spec).        *)
(***************************************************************************)
Deserializations(errs) ==
    Cardinality({i \in 1..Len(errs) : errs[i].Category = ErrorCategoryDeserialization})
Validations(errs) ==
    Cardinality({i \in 1..Len(errs) : errs[i].Category = ErrorCategoryValidation})

\* the decode stage of JSON or YAML is over
Decoded == pc = "validate" /\ call.fn \in {"JSON", "YAML"}

\* C13: in JSON and YAML the decode stage appends exactly one
\* deserialization error when the decoder fails otherwise than by a clean end
\* of input (after the truncated body `{` the JSON instance is still zero),
\* and appends none when the decoder succeeds or reports a clean end of
\* input, as for an empty body.
C13_CleanEndOfInputIsNoError ==
    Decoded =>
       IF req.Body \in {"truncated", "mistyped"}
       THEN /\ Deserializations(call.errs) = 1
            /\ Len(call.errs) = 1
            /\ (req.Body = "truncated" /\ call.fn = "JSON")
                  => call.obj = ZeroStruct(reg.model.type)
       ELSE call.errs = <<>>

\* the events of the decode, parse and mapping stages
BindingEvents == {"Decode", "ParseForm", "MultipartReader", "ReadForm", "mapForm"}

\* C14: for each entry point the validator is run exactly once for a
\* request, on every path (after decode, parse or coercion errors too),
\* after decoding and mapping and before the instance and the errors are
\* mapped into the context; what is exposed is the errors of the earlier
\* stages followed by exactly one validation error (the validator failed,
\* on however many fields) or by none (it did not).
C14_ValidatorRunsOnceOnEveryPath ==
    /\ Count(hist, "VarCtx") <= 1
    /\ pc \in {"boot", "idle", "bind", "validate"} => ~Occurs(hist, "VarCtx")
    /\ pc = "validate" => Validations(call.errs) = 0
    /\ Dispatched \/ pc = "dispatch" =>
          /\ Count(hist, "VarCtx") = 1
          /\ Position(hist, "VarCtx") + 1 = Position(hist, "Map")
          /\ \A e \in BindingEvents :
                \A i \in 1..Len(hist) : hist[i] = e => i < Position(hist, "VarCtx")
          /\ Validations(Exposed) <= 1
          /\ \A i \in 1..Len(Exposed) :
                Exposed[i].Category = ErrorCategoryValidation
                   => i = Len(Exposed) /\ Exposed[i] = ValidationError
    /\ pc = "dispatch" =>
          \/ Exposed = call.errs
          \/ Exposed = Append(call.errs, ValidationError)

\* the validator ran, and failed, on an instance whose body did not decode
C14_Witness ==
    /\ pc = "finished"
    /\ reg.entry = "JSON"
    /\ req.Body = "truncated"
    /\ Count(hist, "VarCtx") = 1
    /\ Len(Exposed) = 2
    /\ Exposed[1].Category = ErrorCategoryDeserialization
    /\ Exposed[2] = ValidationError

(***************************************************************************)
(* Properties of concurrent requests (stated of SpecConcurrent).           *)
(***************************************************************************)
\* the requests in flight: the one of the running goroutine and the one of
\* the other
InFlight ==
    { [pc |-> pc, call |-> call, req |-> req, ctx |-> ctx] }
    \cup (IF ret.fn = "parked"
          THEN { [pc |-> ret.pc, call |-> ret.call, req |-> ret.req, ctx |-> ret.ctx] }
          ELSE {})

\* what a request alone determines: the instance bound from it, and the
\* errors of its stages before validation
OwnBinding(r) ==
    LET typ  == reg.model.type
        zero == ZeroStruct(typ)
    IN  CASE r.kind \in {"JSON", "YAML"} ->
               IF r.Body = "nil" THEN [obj |-> zero, errs |-> <<>>]
               ELSE LET d == Decode(r.Body, typ, zero)
                    IN  [obj  |-> d.obj,
                         errs |-> IF d.err = "" THEN <<>> ELSE <<DecodeError(d.err)>>]
          [] r.kind = "Form" ->
               LET m == mapForm(typ, zero, r.Form, <<>>,
                                IF r.parseErr THEN <<ParseError>> ELSE <<>>)
               IN  [obj |-> m.obj, errs |-> m.errs]
          [] OTHER ->
               IF r.parse = "ok"
               THEN LET m == mapForm(typ, zero, r.body.Value, r.body.File, <<>>)
                    IN  [obj |-> m.obj, errs |-> m.errs]
               ELSE [obj |-> zero, errs |-> <<ParseError>>]

BeforeValidation(errs) == SelectSeq(errs, LAMBDA e : e.Category # ErrorCategoryValidation)

Isolated(s) ==
    /\ s.pc = "idle" => s.ctx = NoCtx
    /\ s.pc = "bind" =>
          /\ s.call.obj = ZeroStruct(reg.model.type)
          /\ s.call.errs = <<>>
          /\ s.ctx = NoCtx
    /\ s.pc = "validate" =>
          /\ s.call.obj = OwnBinding(s.req).obj
          /\ s.call.errs = OwnBinding(s.req).errs
    /\ s.pc = "dispatch" =>
          /\ s.ctx.Map = 1
          /\ s.ctx.obj = <<OwnBinding(s.req).obj>>
          /\ BeforeValidation(s.ctx.errs[1]) = OwnBinding(s.req).errs

\* C15: in every interleaving of two requests handled by the handler of one
\* registration, each request starts from its own zero-valued instance and
\* its own empty error collection, the instance and the errors exposed for a
\* request are those its own request determines (nothing of the other
\* request is in them), and request handling never changes the model value
\* or the Options given at registration.
C15_RequestsShareNothing ==
    /\ [](\A s \in InFlight : Isolated(s))
    /\ [][ /\ reg'.model = reg.model
           /\ reg'.opts = reg.opts
           /\ reg.handler => reg' = reg ]_vars

\* two requests, both bound, with different instances and different errors
C15_Witness ==
    /\ pc = "dispatch"
    /\ ret.fn = "parked"
    /\ ret.pc = "dispatch"
    /\ reg.entry = "Form"
    /\ ctx.obj[1] # ZeroStruct(reg.model.type)
    /\ ret.ctx.obj[1] # ZeroStruct(reg.model.type)
    /\ ctx.obj # ret.ctx.obj
    /\ ctx.errs[1] # <<>>
    /\ ret.ctx.errs[1] = <<>>

(***************************************************************************)
(* Properties of the fields of the form mapper (stated of SpecMapForm).    *)
(***************************************************************************)
\* the writable fields of the model that are pointers to records
PointerFields(model) ==
    { i \in 1..Len(StructTypes[model]) :
        /\ StructTypes[model][i].exported
        /\ StructTypes[model][i].kind = "ptr"
        /\ StructTypes[model][i].target # "FileHeader" }

\* the fields of the record type typ that the source gives a non-zero value:
\* the key is present and its first token is valid and coerces to non-zero
GivenNonZero(typ, form) ==
    { n \in 1..Len(Leaves(typ)) :
        LET l == Leaves(typ)[n]
        IN  /\ l.kind \in ScalarKinds
            /\ l.key \in DOMAIN form
            /\ form[l.key] # <<>>
            /\ ValidToken(l.kind, form[l.key][1])
            /\ CoercionOf(l.kind, form[l.key][1]) # ZeroScalar(l.kind) }

\* field i of the instance is a non-nil pointer to a record in which the
\* fields the source gives a non-zero value hold it
Populated(model, obj, form, i) ==
    LET target == StructTypes[model][i].target
    IN  /\ obj[i] # <<>>
        /\ \A n \in GivenNonZero(target, form) :
              LET l == Leaves(target)[n]
              IN  FieldValue(target, obj[i][1], l) = CoercionOf(l.kind, form[l.key][1])

\* C16 as the specification words it: every writable field that is a pointer
\* to a record, named or embedded, is given a fresh target and descended
\* into, so that when a key of the source matches a field of the record
\* with a non-zero value the field ends up non-nil with that field populated.
C16_EveryPointerToRecordIsPopulated ==
    Completed =>
       \A i \in PointerFields(call.model) :
          GivenNonZero(StructTypes[call.model][i].target, call.form) # {}
             => Populated(call.model, ret.obj, call.form, i)

\* C16 (amended): every writable field that is an embedded (anonymous)
\* pointer to a record is given a fresh target and descended into, so that
\* when a key of the source matches a field of the record with a non-zero
\* value the field ends up non-nil with that field populated; a named
\* pointer to a record is not descended into and stays nil.
C16_EmbeddedPointerToRecordIsPopulated ==
    Completed =>
       \A i \in PointerFields(call.model) :
          IF StructTypes[call.model][i].Anonymous
          THEN GivenNonZero(StructTypes[call.model][i].target, call.form) # {}
                  => Populated(call.model, ret.obj, call.form, i)
          ELSE ret.obj[i] = <<>>

C16_Witness ==
    /\ Completed
    /\ call.model = "member"
    /\ DOMAIN call.form = {"nick", "level"}
    /\ call.form["nick"] = << <<"1", "7">> >>
    /\ ret.obj[1] = << << <<"1", "7">>, <<0, 0>> >> >>
    /\ ret.errs = call.errs

\* the errors the call appended
Appended == SubSeq(ret.errs, Len(call.errs) + 1, Len(ret.errs))

\* the tokens of a matched field that are coerced: all of them for a slice,
\* the first for any other field; and whether each is valid or unparseable
Settled(leaf, toks) ==
    \A j \in 1..Len(toks) :
       (j = 1 \/ leaf.kind = "slice") =>
          \/ ValidToken(LeafKind(leaf), toks[j])
          \/ Unparseable(LeafKind(leaf), toks[j])

\* what a token leaves in the field or position it is coerced into
CoercedOrZero(kind, tok) ==
    IF Unparseable(kind, tok) THEN ZeroScalar(kind) ELSE CoercionOf(kind, tok)

\* the number of failing tokens among those coerced for the fields of key k
RECURSIVE FailingFor(_, _, _, _)
FailingFor(ls, k, toks, n) ==
    IF n > Len(ls) THEN 0
    ELSE (IF ls[n].key = k THEN Len(FailuresOf(ls[n], toks, 1)) ELSE 0)
         + FailingFor(ls, k, toks, n + 1)

\* C17: a field whose key is present in the plain-value mapping with n >= 1
\* values: a slice of scalars becomes a slice of exactly n elements, position
\* i holding the coercion of value i, or zero where value i fails, each
\* position on its own, with exactly one error appended for each failing
\* position; any other field is coerced from the first value only, the
\* other values being ignored (they add no error whatever they are).
C17_SliceByPositionElseFirstValue ==
    Completed =>
       LET ls == Leaves(call.model)
       IN  \A n \in 1..Len(ls) :
              (/\ ls[n].key \in DOMAIN call.form
               /\ Len(call.form[ls[n].key]) >= 1
               /\ Settled(ls[n], call.form[ls[n].key]))
              => LET toks == call.form[ls[n].key]
                     got  == FieldValue(call.model, ret.obj, ls[n])
                 IN  /\ IF ls[n].kind = "slice"
                        THEN /\ Len(got) = Len(toks)
                             /\ \A j \in 1..Len(toks) :
                                   got[j] = CoercedOrZero(ls[n].elem, toks[j])
                        ELSE got = CoercedOrZero(ls[n].kind, toks[1])
                     /\ (\A m \in 1..Len(ls) : ls[m].key = ls[n].key => Settled(ls[m], toks))
                        => Cardinality({ e \in 1..Len(Appended) :
                                            Appended[e].field = ls[n].key })
                           = FailingFor(ls, ls[n].key, toks, 1)

\* a slice of three values of which the second fails
C17_Witness ==
    /\ Completed
    /\ call.model = "filter"
    /\ DOMAIN call.form = {"ip"}
    /\ call.form["ip"] = << <<"1", "7">>, <<"b", "a", "d">>, <<"1", "7">> >>
    /\ ret.obj[1] = <<17, 0, 17>>
    /\ Len(Appended) = 1
    /\ Appended[1].token = <<"b", "a", "d">>

\* the key by which field i of the model is looked up
KeyOfField(model, i) ==
    IF StructTypes[model][i].tag = "" THEN StructTypes[model][i].Name
    ELSE StructTypes[model][i].tag

\* the writable slice fields of the model
SliceFields(model) ==
    { i \in 1..Len(StructTypes[model]) :
        StructTypes[model][i].exported /\ StructTypes[model][i].kind = "slice" }

\* C18: a slice field whose key is present in the plain-value mapping with
\* an empty sequence of values is left at its zero value, no error is
\* appended for it, mapForm raises no fatal error and goes on to the
\* remaining fields.  (The rest of the source is well formed: every other
\* key has one or more values.)
C18_EmptyValueListLeavesSliceUntouched ==
    Mapped =>
       \A i \in SliceFields(call.model) :
          LET k == KeyOfField(call.model, i)
          IN  (/\ k \in DOMAIN call.form
               /\ call.form[k] = <<>>
               /\ \A o \in DOMAIN call.form \ {k} : call.form[o] # <<>>
               /\ IsSourceMapping(call.files))
              => /\ ~ret.panic
                 /\ ret.obj[i] = <<>>
                 /\ \A e \in 1..Len(ret.errs) : ret.errs[e].field # k

WritableFields(model) ==
    { i \in 1..Len(StructTypes[model]) : StructTypes[model][i].exported }

\* C19: a field whose key is absent from the plain-value mapping and present
\* in the file mapping: a slice of file handles becomes the mapped handles,
\* in the same order and number; a single file handle becomes the first
\* mapped handle; a field of any other kind is left as it was; and no error
\* is appended for the field.
C19_FilesAssignedVerbatim ==
    Completed =>
       \A i \in WritableFields(call.model) :
          LET f == StructTypes[call.model][i]
              k == KeyOfField(call.model, i)
          IN  (k \notin DOMAIN call.form /\ k \in DOMAIN call.files)
              => /\ CASE f.kind = "slice" /\ f.elem = "ptr" /\ f.target = "FileHeader" ->
                           ret.obj[i] = call.files[k]
                      [] f.kind = "ptr" /\ f.target = "FileHeader" ->
                           /\ call.files[k] # <<>>
                           /\ ret.obj[i] = call.files[k][1]
                      [] OTHER -> ret.obj[i] = ZeroField(f)
                 /\ \A e \in 1..Len(Appended) : Appended[e].field # k

\* two handles for the slice of handles, in the order given
C19_Witness ==
    /\ Completed
    /\ call.model = "upload"
    /\ call.form = <<>>
    /\ DOMAIN call.files = {"picture"}
    /\ call.files["picture"] = << <<"f2">>, <<"f1">> >>
    /\ ret.obj[3] = << <<"f2">>, <<"f1">> >>
    /\ ret.obj[2] = <<>>
    /\ ret.errs = call.errs

\* the file mapping without the keys that the plain-value mapping has
FilesBesides(form, files) == [k \in DOMAIN files \ DOMAIN form |-> files[k]]

\* C20: the plain-value mapping comes before the file mapping.  For a field
\* whose key is present in the plain-value mapping the file mapping is never
\* consulted, also when the key is in the file mapping too and the field is
\* a file handle or a slice of them: such a field holds no handle of the
\* file mapping, and the call returns what it returns when those keys are
\* taken out of the file mapping.
C20_PlainValuesBeforeFiles ==
    Completed =>
       /\ \A i \in WritableFields(call.model) :
             LET f == StructTypes[call.model][i]
                 k == KeyOfField(call.model, i)
             IN  (k \in DOMAIN call.form /\ f.target = "FileHeader")
                 => IF f.kind = "slice"
                    THEN ret.obj[i] = [j \in 1..Len(call.form[k]) |-> <<>>]
                    ELSE ret.obj[i] = <<>>
       /\ LET r == mapForm(call.model, ZeroStruct(call.model), call.form,
                           FilesBesides(call.form, call.files), call.errs)
          IN  ret.obj = r.obj /\ ret.errs = r.errs /\ ~r.panic

\* the key of the single file handle is in both mappings: the handle is not
\* assigned
C20_Witness ==
    /\ Completed
    /\ call.model = "upload"
    /\ DOMAIN call.form = {"background"}
    /\ DOMAIN call.files = {"background", "picture"}
    /\ call.files["background"] = << <<"f1">> >>
    /\ ret.obj[2] = <<>>
    /\ ret.obj[3] = call.files["picture"]

(***************************************************************************)
(* Properties of the parse stage of MultipartForm (stated of Spec).        *)
(***************************************************************************)
\* the handler of MultipartForm has attempted to parse the request and has
\* reached its call of validateAndMap
ParseAttempted ==
    /\ pc = "validate"
    /\ call.fn = "MultipartForm"
    /\ Occurs(hist, "MultipartReader")

\* exactly one error of the parse stage has been appended and the instance
\* is still the zero value of the model
OneParseErrorAndZero ==
    /\ call.errs = <<ParseError>>
    /\ Deserializations(call.errs) = 1
    /\ call.obj = ZeroStruct(reg.model.type)

\* the instance and the errors are those of mapForm called on both mappings
\* of the request's parsed form
MappedFromBoth ==
    LET r == mapForm(reg.model.type, ZeroStruct(reg.model.type),
                     req.body.Value, req.body.File, <<>>)
    IN  /\ hist = <<"MultipartReader", "ReadForm", "mapForm">>
        /\ req.MultipartForm = <<req.body>>
        /\ call.obj = r.obj
        /\ call.errs = r.errs

\* the statement as the specification words it: after either failure of the
\* parse stage there is exactly one deserialization error, mapForm has not
\* been invoked and the instance is zero; after a successful parse mapForm
\* has been invoked with the plain values and the files of the parsed form.
C21_ParseFailureSkipsMapper ==
    ParseAttempted =>
        IF req.parse = "ok"
        THEN MappedFromBoth
        ELSE /\ OneParseErrorAndZero
             /\ ~Occurs(hist, "mapForm")

\* C21: for the MultipartForm entry point, when obtaining the multipart
\* reader or reading the multipart form fails, exactly one deserialization
\* error is appended for the parse stage and the instance is zero-valued
\* before validation; mapForm is not invoked after a failure of ReadForm,
\* whose nil form is assigned to the request, and is invoked after a failure
\* of r.MultipartReader on the empty form that call left in the request,
\* from which it maps nothing.  When parsing succeeds, mapForm is invoked
\* with both the plain-value mapping and the file mapping of the parsed form.
C21_ParseFailureLeavesInstanceZero ==
    ParseAttempted =>
        IF req.parse = "ok"
        THEN MappedFromBoth
        ELSE /\ OneParseErrorAndZero
             /\ req.parse = "ReadForm fails" =>
                   /\ hist = <<"MultipartReader", "ReadForm">>
                   /\ req.MultipartForm = <<>>
             /\ req.parse = "MultipartReader fails" =>
                   /\ hist = <<"MultipartReader", "mapForm">>
                   /\ req.MultipartForm = <<multipartByReader>>

\* r.MultipartReader has failed on a request for an upload: one error of the
\* parse stage, mapForm run on the empty form, the instance still zero
C21_Witness ==
    /\ ParseAttempted
    /\ req.parse = "MultipartReader fails"
    /\ reg.model.type = "upload"
    /\ hist = <<"MultipartReader", "mapForm">>
    /\ call.errs = <<ParseError>>
    /\ call.obj = ZeroStruct("upload")

(***************************************************************************)
(* Properties of key matching over the field tree (stated of SpecMapForm). *)
(***************************************************************************)
\* The exported record-kind fields the mapper meets, at any depth: nested
\* records, embedded optional records and named pointers to records, each
\* with its path and its own external key name.
RECURSIVE RecordFieldsFrom(_, _, _)
RecordFieldsFrom(typ, prefix, i) ==
    IF i > Len(StructTypes[typ]) THEN <<>>
    ELSE LET f    == StructTypes[typ][i]
             self == << [path |-> Append(prefix, i),
                         key  |-> IF f.tag = "" THEN f.Name ELSE f.tag,
                         kind |-> f.kind, Anonymous |-> f.Anonymous] >>
             here ==
               IF ~f.exported THEN <<>>
               ELSE IF f.kind = "struct" \/ (f.kind = "ptr" /\ f.Anonymous)
               THEN self \o RecordFieldsFrom(f.target, Append(prefix, i), 1)
               ELSE IF f.kind = "ptr" /\ f.target # "FileHeader"
               THEN self
               ELSE <<>>
         IN  here \o RecordFieldsFrom(typ, prefix, i + 1)

RecordFields(model) == RecordFieldsFrom(model, <<>>, 1)

LeafKeys(model) == { Leaves(model)[n].key : n \in 1..Len(Leaves(model)) }

\* C22: mapForm matches the fields of nested and embedded records against
\* the same flat source mapping by their own unprefixed key names.  A key
\* that is present populates every writable field of the whole field tree
\* that has that key name, at the top level or in a nested or embedded
\* record, with the coercion of its value; a field whose key is absent keeps
\* its zero value; and a key that matches a record-kind field itself writes
\* nothing (the record holds what its own fields were given, a named pointer
\* to a record stays nil) and appends no error.
C22_FlatKeysReachEveryDepth ==
    (/\ Mapped
     /\ IsSourceMapping(call.form)
     /\ IsSourceMapping(call.files))
    => /\ ~ret.panic
       /\ LET ls == Leaves(call.model)
          IN  \A n \in 1..Len(ls) :
                 LET got == FieldValue(call.model, ret.obj, ls[n])
                 IN  IF ls[n].key \in DOMAIN call.form
                     THEN LET toks == call.form[ls[n].key]
                          IN  IF ls[n].kind = "slice"
                              THEN (\A j \in 1..Len(toks) : ValidToken(ls[n].elem, toks[j]))
                                   => got = [j \in 1..Len(toks) |->
                                               CoercionOf(ls[n].elem, toks[j])]
                              ELSE ValidToken(ls[n].kind, toks[1])
                                   => got = CoercionOf(ls[n].kind, toks[1])
                     ELSE got = LeafZero(ls[n])
       /\ LET rs == RecordFields(call.model)
          IN  \A n \in 1..Len(rs) :
                 /\ (rs[n].kind = "ptr" /\ ~rs[n].Anonymous)
                       => Walk(call.model, ret.obj, rs[n].path) = << <<>> >>
                 /\ (rs[n].key \in DOMAIN call.form /\ rs[n].key \notin LeafKeys(call.model))
                       => \A e \in 1..Len(ret.errs) : ret.errs[e].field # rs[n].key

\* the key "id" has populated the field of that name in the order and in the
\* address nested in it, and the key "address", which matches the nested
\* record itself, has written nothing and added no error
C22_Witness ==
    /\ Mapped
    /\ call.model = "order"
    /\ call.form = ("address" :> << <<"b", "a", "d">> >>) @@ ("id" :> << <<"1", "7">> >>)
    /\ ret.obj = << << <<>>, 17 >>, 17 >>
    /\ ret.errs = call.errs

(***************************************************************************)
(* Properties of the error collection across a discarded allocation        *)
(* (stated of SpecMapForm).                                                *)
(***************************************************************************)
\* the embedded optional records of the model that mapForm allocated,
\* mapped and then discarded: the fields that are embedded pointers and nil
\* in the result
Discarded ==
    { i \in 1..Len(StructTypes[call.model]) :
         /\ StructTypes[call.model][i].exported
         /\ StructTypes[call.model][i].kind = "ptr"
         /\ StructTypes[call.model][i].Anonymous
         /\ ret.obj[i] = <<>> }

\* the errors that mapping the fields of one sub-record calls for
SubRecordErrors(i) ==
    ExpectedErrors(LeavesFrom(StructTypes[call.model][i].target, <<i>>, 1), call.form, 1)

IsPrefix(s, t) == Len(s) <= Len(t) /\ SubSeq(t, 1, Len(s)) = s

\* s occurs in t as a run of adjacent entries
IsRun(s, t) ==
    \E k \in 0..(Len(t) - Len(s)) : SubSeq(t, k + 1, k + Len(s)) = s

\* C23: when mapForm has recursed into an allocated embedded optional record
\* and discarded the allocation because the record equals its zero value,
\* every coercion error appended while mapping that record is still in the
\* returned error collection, in order and at the record's position among
\* the errors of the other fields; and the error collection passed in is
\* always a prefix of the one returned.
C23_DiscardKeepsErrors ==
    Completed =>
       /\ IsPrefix(call.errs, ret.errs)
       /\ \A i \in Discarded :
             /\ IsRun(SubRecordErrors(i), Appended)
             /\ Appended = ExpectedErrors(Leaves(call.model), call.form, 1)

\* an embedded record given only a token its field cannot parse is
\* discarded, and its error stands between the error passed in and the
\* error of the field that follows the record
C23_Witness ==
    /\ Completed
    /\ call.model = "member"
    /\ call.form = ("score" :> << <<"b", "a", "d">> >>) @@ ("level" :> << <<"b", "a", "d">> >>)
    /\ call.errs = <<ParseError>>
    /\ Discarded = {1}
    /\ Len(ret.errs) = 3
    /\ ret.errs[1] = ParseError
    /\ ret.errs[2].field = "score"
    /\ ret.errs[3].field = "level"

=============================================================================
